---- MODULE Spec2Model ----
(***************************************************************************)
(* A model of the orchestration machinery of SearchAfterburner:            *)
(* the multi-tier cache (cache/manager.py, memory.py, disk.py,             *)
(* serializer.py), the network circuit breaker and hedged session          *)
(* (net/session.py), the streaming pipeline (streaming/*.py), the judge    *)
(* cascade (cascade/cascade.py) and the budget controller                  *)
(* (adaptive/budget.py).  Each component has its own next-state relation   *)
(* and specification over the shared variables.                            *)
(***************************************************************************)
EXTENDS Integers, Sequences, FiniteSets, TLC

VARIABLES
    now,          \* time.time(), in whole seconds
    mem_cache,    \* LRUCache._cache: entries from least to most recently used
    disk_entries, \* DiskCache.metadata["entries"], ordered by last_accessed
    total_size,   \* DiskCache.metadata["total_size"]
    disk_files,   \* payload files of the disk tier: key -> bytes written
    cache_op,     \* the last CacheManager call: op, time, key, and the value put
                  \* (for a get: the value put by the call just before it, if
                  \* that was a put of the same key)
    cache_ret,    \* what the last CacheManager.get returned
    put_deadline, \* per key: put time + ttl of the latest put, or None
    \* net/session.py
    breaker,      \* CircuitBreaker: state, failure_count, last_failure_time
    req_pc,       \* per request: where _hedged_request stands
    req_attempt,  \* per request: the loop variable attempt
    req_sent,     \* per request: network attempts issued by the current call
    \* streaming/pipeline.py, queues.py, workers.py; stage and queue i of 1..4
    \* are search, embedding, rerank, judge
    is_running,   \* StreamingPipeline.is_running
    queue,        \* BaseQueue.queue of each stage: the tasks waiting, oldest first
    total_put,    \* BaseQueue.total_put of each queue
    total_dropped,\* BaseQueue.total_dropped of each queue
    full_puts,    \* per queue: puts that found the queue full
    loop_pc,      \* per stage: where the worker's start() loop stands
    loop_task,    \* per stage: the task the loop holds, or NoTask
    tasks_processed, \* BaseWorker.tasks_processed of each stage
    errors,       \* BaseWorker.errors of each stage
    results,      \* StreamingPipeline.results
    judge_results,\* JudgeWorker.results
    sub_pc,       \* per query: where its submission stands, and the task's class
    undisturbed,  \* no stop() and no failure of an external call so far
    tasks,        \* StreamingPipeline.tasks: per stage, the loops the list holds
    live_loops,   \* per stage, the stage loops spawned and not terminated
    getter,       \* a caller of StreamingPipeline.get_result and where it stands
    \* cascade/cascade.py
    judges,       \* JudgeCascade.judges: the registered names in insertion order
    casc_config,  \* the CascadeConfig flags
    last_eval,    \* the last evaluate() call: the judges registered then, how it
                  \* ended, the result, the judges invoked and what each returned
    performance_history, \* JudgeCascade.performance_history
    evaluation_count,    \* per judge, BaseJudge.evaluation_count; total_time is
                         \* added to in the same place
    thresholds,          \* the three thresholds of JudgeCascade.config
    last_thresholds,     \* the adapt_thresholds call made last, if no other call
                         \* followed it: the thresholds and the judges it found
    \* adaptive/budget.py
    current_tier, \* BudgetManager.current_tier
    last_adapt,   \* the last adapt_tier call: old_tier and its arguments
    since_fast,   \* adapt_tier calls since current_tier was fast, 2 for "two or
                  \* more, or never"
    budget_history, \* BudgetManager.performance_history: the tier and the
                  \* timestamp of each entry
    budget_clock, \* time.time(), in minutes
    \* adaptive/tiering.py, adaptive/adaptive.py
    retrieval_tier, \* TierManager.current_tier
    last_select,  \* the last select_tier call: the tier before it, its query and
                  \* its context
    last_config,  \* the config get_adaptive_config returned last
    \* net/hedging.py: one hedge_requests call
    hedges,       \* the candidates (by position in the caller's list) as sorted
    hedge_pc,     \* where each candidate's execute_hedge stands
    finished,     \* the candidates in the order their requests ended
    hedge_ret,    \* what hedge_requests returned
    \* adaptive/adaptive.py
    adaptation_enabled,  \* AdaptiveOrchestrator.adaptation_enabled
    last_retry,   \* the last should_retry_with_higher_tier call and its answer
    \* guardrails/guardrails.py
    circuit_breaker_state,      \* GuardrailManager.circuit_breaker_state
    circuit_breaker_failures,   \* GuardrailManager.circuit_breaker_failures
    circuit_breaker_reset_time, \* GuardrailManager.circuit_breaker_reset_time
    in_a_row,     \* record_failure calls since the last record_success call
    request_counts, \* GuardrailManager.request_counts, keyed by client id and
                  \* minute number
    rate_minute,  \* int(time.time() // 60)
    admitted,     \* per client id, the check_rate_limit calls that returned True
                  \* in the current minute
    last_run,     \* the last run_evaluation call: the levels of its input and
                  \* output violations and how it ended
    only_warn,    \* no violation of any run_evaluation call so far was BLOCK
    \* cache/manager.py, the caller's view
    latest,       \* per key: the value of the latest put, None after an invalidate
    invalidated,  \* the keys put under a namespace that invalidate_pattern was
                  \* called with after their latest put
    \* cache/memory.py: one LRUCache on its own
    lru,          \* LRUCache._cache: entries from least to most recently used
    use_order,    \* the keys ever used, from the least to the most recently used,
                  \* where a put and a get hit are uses
    lru_op,       \* the last LRUCache call: op, key, the keys held before it, the
                  \* use order before it, whether a get hit moved an entry
    \* cache/disk.py under storage failures
    io            \* the last CacheManager call made while storage steps could fail:
                  \* the steps that failed in it and whether it raised

cacheVars == <<now, mem_cache, disk_entries, total_size, disk_files, cache_op,
               cache_ret, put_deadline>>

netVars == <<breaker, req_pc, req_attempt, req_sent>>

pipeVars == <<is_running, queue, total_put, total_dropped, full_puts, loop_pc,
              loop_task, tasks_processed, errors, results, judge_results, sub_pc,
              undisturbed,
             tasks, live_loops, getter>>

cascVars == <<judges, casc_config, last_eval, performance_history, evaluation_count,
              thresholds, last_thresholds>>

budgetVars == <<current_tier, last_adapt, since_fast, retrieval_tier, last_select,
                last_config, budget_history, budget_clock>>

hedgeVars == <<hedges, hedge_pc, finished, hedge_ret>>

retryVars == <<adaptation_enabled, last_retry>>

ioVars == <<io>>

limiterVars == <<request_counts, rate_minute, admitted, last_run, only_warn>>

guardVars == <<circuit_breaker_state, circuit_breaker_failures,
               circuit_breaker_reset_time, in_a_row, limiterVars>>

staleVars == <<latest>>

patternVars == <<invalidated>>

lruVars == <<lru, use_order, lru_op>>

vars == <<cacheVars, netVars, pipeVars, cascVars, budgetVars, hedgeVars, retryVars,
          ioVars, guardVars, staleVars, patternVars, lruVars>>

\* Python's None
None == 0 - 1

(***************************************************************************)
(* Bounds of the cache model                                               *)
(***************************************************************************)
MaxTime == 2
ShortTtl == 1
memory_size == 1
max_size_bytes == 2
ttl_seconds == 3600

\* Payloads are told apart by their serialized size: a small one, one that
\* fills the disk tier, and one that alone exceeds its capacity.
CacheValues == {1, max_size_bytes, max_size_bytes + 1}

\* ttl arguments of CacheManager.put: None (the default) and a short ttl
TtlArgs == {None, ShortTtl}

\* Strings are sequences of tokens; ":" is the separator _make_key joins with.
Join(args) ==
    LET RECURSIVE J(_)
        J(i) == IF i > Len(args) THEN << >>
                ELSE IF i = Len(args) THEN args[i]
                ELSE args[i] \o <<":">> \o J(i + 1)
    IN J(1)

\* hashlib.md5(...).hexdigest(): an opaque digest, one per distinct key_data
Md5(key_data) == <<"md5">> \o key_data

_make_key(prefix, args) == Md5(prefix \o <<":">> \o Join(args))

\* (prefix, args) pairs the callers use.  The last two differ in their parts
\* and yield the same key_data.
CacheCalls ==
    { <<(<<"rerank">>), <<(<<"q">>), (<<"ddg">>)>> >>,
      <<(<<"search">>), <<(<<"q">>), (<<"ddg">>)>> >>,
      <<(<<"search">>), <<(<<"q", ":", "ddg">>)>> >> }

CacheKeys == { _make_key(c[1], c[2]) : c \in CacheCalls }

(***************************************************************************)
(* CacheSerializer                                                         *)
(***************************************************************************)
\* pickle.dumps + gzip.compress: bytes carrying the payload, of length len
serialize(value) == [fmt |-> "pickle.gz", body |-> value, len |-> value]

\* gzip.decompress + pickle.loads; anything else falls back to JSON and then None
deserialize(data) == IF data.fmt = "pickle.gz" THEN data.body ELSE None

(***************************************************************************)
(* LRUCache                                                                *)
(***************************************************************************)
Without(seq, key) == SelectSeq(seq, LAMBDA e : e.key # key)

HasKey(seq, key) == \E i \in 1..Len(seq) : seq[i].key = key

Entry(seq, key) == seq[CHOOSE i \in 1..Len(seq) : seq[i].key = key]

EvictNewest(cache, maxsize) ==
    IF Len(cache) > maxsize THEN SubSeq(cache, 1, maxsize) ELSE cache

\* while len(self._cache) > self.maxsize: self._cache.popitem(last=False)
RECURSIVE EvictOver(_, _)
EvictOver(cache, maxsize) ==
    IF Len(cache) > maxsize THEN EvictOver(Tail(cache), maxsize) ELSE cache

LRUPutNoEvict(cache, key, value, ttl, t) ==
    Append(Without(cache, key),
           [key |-> key, value |-> value,
            expires_at |-> IF ttl # None THEN t + ttl ELSE None])

LRUPutEvictNewest(cache, key, value, ttl, t) ==
    LET c == LRUPutNoEvict(cache, key, value, ttl, t)
    IN IF Len(c) > memory_size THEN SubSeq(c, 1, memory_size) ELSE c

\* LRUCache.put on a cache of capacity maxsize
LRUPutSized(cache, key, value, ttl, t, maxsize) ==
    EvictOver(Append(Without(cache, key),
                     [key |-> key, value |-> value,
                      expires_at |-> IF ttl # None THEN t + ttl ELSE None]),
              maxsize)

\* LRUCache.put on the memory tier
LRUPut(cache, key, value, ttl, t) ==
    LRUPutSized(cache, key, value, ttl, t, memory_size)

\* LRUCache.get: <<value or None, the cache afterwards>>
LRUGet(cache, key, t) ==
    IF HasKey(cache, key)
    THEN LET e == Entry(cache, key)
         IN IF e.expires_at = None \/ t < e.expires_at
            THEN <<e.value, Append(Without(cache, key), e)>>
            ELSE <<None, Without(cache, key)>>
    ELSE <<None, cache>>

\* LRUCache.delete
LRUDelete(cache, key) == Without(cache, key)

(***************************************************************************)
(* DiskCache.  A disk state d is [entries, total, files].                  *)
(***************************************************************************)
Unlink(files, key) == [k \in (DOMAIN files) \ {key} |-> files[k]]

\* DiskCache.delete
DiskDelete(d, key) ==
    IF HasKey(d.entries, key)
    THEN [entries |-> Without(d.entries, key),
          total |-> d.total - Entry(d.entries, key).size,
          files |-> Unlink(d.files, key)]
    ELSE d

EnsureSpaceNone(d, required_bytes) == d

\* DiskCache._ensure_space: entries[1] has the smallest last_accessed
RECURSIVE _ensure_space(_, _)
_ensure_space(d, required_bytes) ==
    IF d.total + required_bytes > max_size_bytes /\ Len(d.entries) > 0
    THEN _ensure_space(DiskDelete(d, d.entries[1].key), required_bytes)
    ELSE d

\* DiskCache.put, from "Write file" on
DiskStore(d, key, data, ttl, t) ==
    [entries |-> Append(Without(d.entries, key),
                        [key |-> key, size |-> data.len,
                         expires_at |-> IF ttl # None THEN t + ttl ELSE None]),
     total |-> d.total + data.len,
     files |-> (key :> data) @@ d.files]

\* DiskCache.put
DiskPut(d, key, value, ttl, t) ==
    LET data == serialize(value)
    IN IF data.len > max_size_bytes
       THEN d
       ELSE DiskStore(_ensure_space(d, data.len), key, data, ttl, t)

\* DiskCache.get: <<value or None, the disk state afterwards>>
DiskGet(d, key, t) ==
    IF key \notin DOMAIN d.files
    THEN <<None, d>>
    ELSE IF ~HasKey(d.entries, key)
    THEN <<None, [d EXCEPT !.files = Unlink(d.files, key)]>>
    ELSE LET e == Entry(d.entries, key)
         IN IF e.expires_at # None /\ t >= e.expires_at
            THEN <<None, DiskDelete(d, key)>>
            ELSE <<deserialize(d.files[key]),
                   [d EXCEPT !.entries = Append(Without(d.entries, key), e)]>>

Disk == [entries |-> disk_entries, total |-> total_size, files |-> disk_files]

SetDisk(d) ==
    /\ disk_entries' = d.entries
    /\ total_size' = d.total
    /\ disk_files' = d.files

(***************************************************************************)
(* CacheManager                                                            *)
(***************************************************************************)
\* ttl = ttl or self.config.ttl_seconds
EffectiveTtl(ttl) == IF ttl = None \/ ttl = 0 THEN ttl_seconds ELSE ttl

\* CacheManager.get, line 66: self.memory_cache.put(key, value)
Promote(cache, key, value, t) == LRUPut(cache, key, value, None, t)

\* CacheManager.put
CachePut(call, value, ttl) ==
    LET key == _make_key(call[1], call[2])
        eff == EffectiveTtl(ttl)
    IN /\ mem_cache' = LRUPut(mem_cache, key, value, eff, now)
       /\ SetDisk(DiskPut(Disk, key, value, eff, now))
       /\ cache_op' = [op |-> "put", at |-> now, key |-> key, value |-> value]
       /\ put_deadline' = [put_deadline EXCEPT ![key] = now + eff]
       /\ UNCHANGED <<now, cache_ret>>

\* CacheManager.get
CacheGet(call) ==
    LET key == _make_key(call[1], call[2])
        m == LRUGet(mem_cache, key, now)
        dk == DiskGet(Disk, key, now)
    IN /\ IF m[1] # None
          THEN /\ cache_ret' = m[1]
               /\ mem_cache' = m[2]
               /\ UNCHANGED <<disk_entries, total_size, disk_files>>
          ELSE /\ cache_ret' = dk[1]
               /\ SetDisk(dk[2])
               /\ mem_cache' = IF dk[1] # None
                               THEN Promote(m[2], key, dk[1], now)
                               ELSE m[2]
       /\ cache_op' = [op |-> "get", at |-> now, key |-> key,
                       value |-> IF cache_op.op = "put" /\ cache_op.key = key
                                 THEN cache_op.value ELSE None]
       /\ UNCHANGED <<now, put_deadline>>

\* CacheManager.invalidate
CacheInvalidate(call) ==
    LET key == _make_key(call[1], call[2])
    IN /\ mem_cache' = LRUDelete(mem_cache, key)
       /\ SetDisk(DiskDelete(Disk, key))
       /\ cache_op' = [op |-> "invalidate", at |-> now, key |-> key, value |-> None]
       /\ put_deadline' = [put_deadline EXCEPT ![key] = None]
       /\ UNCHANGED <<now, cache_ret>>

\* the clock advances between calls
Tick ==
    /\ now < MaxTime
    /\ now' = now + 1
    /\ UNCHANGED <<mem_cache, disk_entries, total_size, disk_files, cache_op,
                   cache_ret, put_deadline>>

CacheInit ==
    /\ now = 0
    /\ mem_cache = << >>
    /\ disk_entries = << >>
    /\ total_size = 0
    /\ disk_files = << >>
    /\ cache_op = [op |-> "init", at |-> 0, key |-> << >>, value |-> None]
    /\ cache_ret = None
    /\ put_deadline = [k \in CacheKeys |-> None]

CacheNext ==
    \/ \E c \in CacheCalls, v \in CacheValues, ttl \in TtlArgs :
          CachePut(c, v, ttl) /\ UNCHANGED <<netVars, pipeVars, cascVars, budgetVars, hedgeVars, retryVars, ioVars, guardVars, staleVars, patternVars, lruVars>>
    \/ \E c \in CacheCalls : CacheGet(c) /\ UNCHANGED <<netVars, pipeVars, cascVars, budgetVars, hedgeVars, retryVars, ioVars, guardVars, staleVars, patternVars, lruVars>>
    \/ \E c \in CacheCalls : CacheInvalidate(c) /\ UNCHANGED <<netVars, pipeVars, cascVars, budgetVars, hedgeVars, retryVars, ioVars, guardVars, staleVars, patternVars, lruVars>>
    \/ Tick /\ UNCHANGED <<netVars, pipeVars, cascVars, budgetVars, hedgeVars, retryVars, ioVars, guardVars, staleVars, patternVars, lruVars>>

(***************************************************************************)
(* The disk tier when storage steps fail (cache/disk.py).  A call is made  *)
(* with a set of step kinds that fail whenever the call reaches them:      *)
(* "read" is open/read of a payload file, "write" is open/write of it,     *)
(* "unlink" is Path.unlink of an existing file, "save" is the json.dump    *)
(* of _save_metadata.                                                      *)
(***************************************************************************)
IoSteps == {"read", "write", "unlink", "save"}

FailSets == { {} } \cup { {x} : x \in IoSteps } \cup { {"read", "unlink"} }

\* the calls made while storage can fail: one call per key, a small value and
\* one that fills the disk tier, the short ttl
IoCalls == { c \in CacheCalls : Len(c[2]) = 2 }

IoValues == {1, max_size_bytes}

\* outcome of a DiskCache call: the value returned, the disk state left, whether
\* the call raised, and the steps that failed in it
Outcome(value, d, raised, failed) ==
    [value |-> value, d |-> d, raised |-> raised, failed |-> failed]

\* DiskCache._save_metadata: catches its own exception
SaveFailed(fails) == fails \cap {"save"}

\* DiskCache.delete: no try/except around unlink
DeleteFailing(d, key, fails) ==
    IF ~HasKey(d.entries, key)
    THEN Outcome(None, d, FALSE, {})
    ELSE LET meta == [d EXCEPT !.entries = Without(d.entries, key),
                               !.total = d.total - Entry(d.entries, key).size]
         IN IF "unlink" \in fails /\ key \in DOMAIN d.files
            THEN Outcome(None, meta, TRUE, {"unlink"})
            ELSE Outcome(None, [meta EXCEPT !.files = Unlink(d.files, key)],
                         FALSE, SaveFailed(fails))

\* DiskCache._ensure_space, stopping at the first delete that raises
RECURSIVE EnsureSpaceFailing(_, _, _)
EnsureSpaceFailing(d, required_bytes, fails) ==
    IF d.total + required_bytes > max_size_bytes /\ Len(d.entries) > 0
    THEN LET del == DeleteFailing(d, d.entries[1].key, fails)
         IN IF del.raised
            THEN del
            ELSE LET rest == EnsureSpaceFailing(del.d, required_bytes, fails)
                 IN [rest EXCEPT !.failed = rest.failed \cup del.failed]
    ELSE Outcome(None, d, FALSE, {})

\* DiskCache.put: the whole body is inside try/except Exception
PutFailing(d, key, value, ttl, t, fails) ==
    LET data == serialize(value)
        room == EnsureSpaceFailing(d, data.len, fails)
    IN IF data.len > max_size_bytes
       THEN Outcome(None, d, FALSE, {})
       ELSE IF room.raised
       THEN [room EXCEPT !.raised = FALSE]
       ELSE IF "write" \in fails
       THEN Outcome(None, room.d, FALSE, room.failed \cup {"write"})
       ELSE Outcome(None, DiskStore(room.d, key, data, ttl, t), FALSE,
                    room.failed \cup SaveFailed(fails))

\* DiskCache.get: the orphan unlink and the delete of an expired entry are
\* outside the try; the except branch itself calls delete
GetFailing(d, key, t, fails) ==
    IF key \notin DOMAIN d.files
    THEN Outcome(None, d, FALSE, {})
    ELSE IF ~HasKey(d.entries, key)
    THEN IF "unlink" \in fails
         THEN Outcome(None, d, TRUE, {"unlink"})
         ELSE Outcome(None, [d EXCEPT !.files = Unlink(d.files, key)], FALSE, {})
    ELSE LET e == Entry(d.entries, key)
         IN IF e.expires_at # None /\ t >= e.expires_at
            THEN DeleteFailing(d, key, fails)
            ELSE IF "read" \in fails
            THEN LET del == DeleteFailing(d, key, fails)
                 IN [del EXCEPT !.failed = del.failed \cup {"read"}]
            ELSE Outcome(deserialize(d.files[key]),
                         [d EXCEPT !.entries = Append(Without(d.entries, key), e)],
                         FALSE, SaveFailed(fails))

\* CacheManager.put with failing storage
IoPut(call, value, ttl, fails) ==
    LET key == _make_key(call[1], call[2])
        eff == EffectiveTtl(ttl)
        out == PutFailing(Disk, key, value, eff, now, fails)
    IN /\ mem_cache' = LRUPut(mem_cache, key, value, eff, now)
       /\ SetDisk(out.d)
       /\ cache_op' = [op |-> "put", at |-> now, key |-> key, value |-> value]
       /\ put_deadline' = [put_deadline EXCEPT ![key] = now + eff]
       /\ io' = [failed |-> out.failed, raised |-> out.raised]
       /\ UNCHANGED <<now, cache_ret>>

\* CacheManager.get with failing storage
IoGet(call, fails) ==
    LET key == _make_key(call[1], call[2])
        m == LRUGet(mem_cache, key, now)
        out == GetFailing(Disk, key, now, fails)
    IN /\ IF m[1] # None
          THEN /\ cache_ret' = m[1]
               /\ mem_cache' = m[2]
               /\ io' = [failed |-> {}, raised |-> FALSE]
               /\ UNCHANGED <<disk_entries, total_size, disk_files>>
          ELSE /\ cache_ret' = out.value
               /\ SetDisk(out.d)
               /\ mem_cache' = IF out.value # None
                               THEN Promote(m[2], key, out.value, now)
                               ELSE m[2]
               /\ io' = [failed |-> out.failed, raised |-> out.raised]
       /\ cache_op' = [op |-> "get", at |-> now, key |-> key,
                       value |-> IF cache_op.op = "put" /\ cache_op.key = key
                                 THEN cache_op.value ELSE None]
       /\ UNCHANGED <<now, put_deadline>>

\* CacheManager.invalidate with failing storage
IoInvalidate(call, fails) ==
    LET key == _make_key(call[1], call[2])
        out == DeleteFailing(Disk, key, fails)
    IN /\ mem_cache' = LRUDelete(mem_cache, key)
       /\ SetDisk(out.d)
       /\ cache_op' = [op |-> "invalidate", at |-> now, key |-> key, value |-> None]
       /\ put_deadline' = [put_deadline EXCEPT ![key] = None]
       /\ io' = [failed |-> out.failed, raised |-> out.raised]
       /\ UNCHANGED <<now, cache_ret>>

IoInit == io = [failed |-> {}, raised |-> FALSE]

IoNext ==
    \/ \E c \in IoCalls, v \in IoValues, fails \in FailSets :
          IoPut(c, v, ShortTtl, fails)
          /\ UNCHANGED <<netVars, pipeVars, cascVars, budgetVars, hedgeVars, retryVars, guardVars, staleVars, patternVars, lruVars>>
    \/ \E c \in IoCalls, fails \in FailSets :
          IoGet(c, fails)
          /\ UNCHANGED <<netVars, pipeVars, cascVars, budgetVars, hedgeVars, retryVars, guardVars, staleVars, patternVars, lruVars>>
    \/ \E c \in IoCalls, fails \in FailSets :
          IoInvalidate(c, fails)
          /\ UNCHANGED <<netVars, pipeVars, cascVars, budgetVars, hedgeVars, retryVars, guardVars, staleVars, patternVars, lruVars>>
    \/ Tick /\ UNCHANGED <<netVars, pipeVars, cascVars, budgetVars, hedgeVars, retryVars,
                          ioVars, guardVars, staleVars, patternVars, lruVars>>

(***************************************************************************)
(* The cache as its caller sees it: each put is remembered per key, so a   *)
(* later get can be compared with the latest put.  The disk tier may       *)
(* reject a value as too large or fail to write it.                        *)
(***************************************************************************)
WriteFailSets == { {}, {"write"} }

\* CacheManager.put; the default ttl, so nothing expires
LatestPut(call, value, fails) ==
    /\ IoPut(call, value, None, fails)
    /\ latest' = [latest EXCEPT ![_make_key(call[1], call[2])] = value]

\* CacheManager.get
LatestGet(call) ==
    /\ IoGet(call, {})
    /\ UNCHANGED latest

\* CacheManager.invalidate
LatestInvalidate(call) ==
    /\ IoInvalidate(call, {})
    /\ latest' = [latest EXCEPT ![_make_key(call[1], call[2])] = None]

StaleInit == latest = [k \in CacheKeys |-> None]

StaleNext ==
    \/ \E c \in IoCalls, v \in CacheValues, fails \in WriteFailSets :
          LatestPut(c, v, fails)
          /\ UNCHANGED <<netVars, pipeVars, cascVars, budgetVars, hedgeVars, retryVars,
                         guardVars, patternVars, lruVars>>
    \/ \E c \in IoCalls :
          LatestGet(c)
          /\ UNCHANGED <<netVars, pipeVars, cascVars, budgetVars, hedgeVars, retryVars,
                         guardVars, patternVars, lruVars>>
    \/ \E c \in IoCalls :
          LatestInvalidate(c)
          /\ UNCHANGED <<netVars, pipeVars, cascVars, budgetVars, hedgeVars, retryVars,
                         guardVars, patternVars, lruVars>>

(***************************************************************************)
(* CacheManager.invalidate_pattern                                         *)
(***************************************************************************)
\* str.startswith on a key: the key is the md5 digest, the prefix a namespace
StartsWith(key, prefix) ==
    Len(prefix) <= Len(key) /\ SubSeq(key, 1, Len(prefix)) = prefix

Namespaces == { c[1] : c \in IoCalls }

\* the keys the callers derive from a namespace
KeysUnder(ns) == { _make_key(c[1], c[2]) : c \in { x \in IoCalls : x[1] = ns } }

\* DiskCache.invalidate_pattern: delete every metadata key that starts with prefix
RECURSIVE DiskInvalidatePattern(_, _, _)
DiskInvalidatePattern(d, keys, prefix) ==
    IF keys = << >>
    THEN d
    ELSE DiskInvalidatePattern(IF StartsWith(Head(keys), prefix)
                               THEN DiskDelete(d, Head(keys)) ELSE d,
                               Tail(keys), prefix)

MetadataKeys(d) == [i \in 1..Len(d.entries) |-> d.entries[i].key]

\* CacheManager.invalidate_pattern
InvalidatePattern(prefix) ==
    /\ mem_cache' = SelectSeq(mem_cache, LAMBDA e : ~StartsWith(e.key, prefix))
    /\ SetDisk(DiskInvalidatePattern(Disk, MetadataKeys(Disk), prefix))
    /\ cache_op' = [op |-> "invalidate_pattern", at |-> now, key |-> prefix,
                    value |-> None]
    /\ invalidated' = invalidated \cup KeysUnder(prefix)
    /\ UNCHANGED <<now, cache_ret, put_deadline>>

\* CacheManager.put
PatternPut(call, value) ==
    /\ LatestPut(call, value, {})
    /\ invalidated' = invalidated \ {_make_key(call[1], call[2])}

PatternInit == invalidated = {}

PatternNext ==
    \/ \E c \in IoCalls, v \in CacheValues :
          PatternPut(c, v)
          /\ UNCHANGED <<netVars, pipeVars, cascVars, budgetVars, hedgeVars, retryVars,
                         guardVars, lruVars>>
    \/ \E c \in IoCalls :
          LatestGet(c)
          /\ UNCHANGED <<netVars, pipeVars, cascVars, budgetVars, hedgeVars, retryVars,
                         guardVars, patternVars, lruVars>>
    \/ \E ns \in Namespaces :
          InvalidatePattern(ns)
          /\ UNCHANGED <<netVars, pipeVars, cascVars, budgetVars, hedgeVars, retryVars,
                         guardVars, ioVars, staleVars, lruVars>>

(***************************************************************************)
(* One LRUCache of capacity lru_maxsize, used with one key more than it    *)
(* holds (cache/memory.py).                                                *)
(***************************************************************************)
lru_maxsize == 2

LruKeys == 1..(lru_maxsize + 1)

KeysOf(cache) == { cache[i].key : i \in 1..Len(cache) }

\* key becomes the most recently used
Used(order, key) == Append(SelectSeq(order, LAMBDA k : k # key), key)

\* LRUCache.put
LruPut(key, ttl) ==
    /\ lru' = LRUPutSized(lru, key, key, ttl, now, lru_maxsize)
    /\ use_order' = Used(use_order, key)
    /\ lru_op' = [op |-> "put", key |-> key, before |-> KeysOf(lru),
                  order |-> use_order,
                  moved |-> lru_op.op = "get" /\ lru_op.moved]
    /\ UNCHANGED now

\* LRUCache.get
LruGet(key) ==
    LET g == LRUGet(lru, key, now)
    IN /\ lru' = g[2]
       /\ use_order' = IF g[1] # None THEN Used(use_order, key) ELSE use_order
       /\ lru_op' = [op |-> "get", key |-> key, before |-> KeysOf(lru),
                     order |-> use_order,
                     moved |-> g[1] # None /\ lru[Len(lru)].key # key]
       /\ UNCHANGED now

\* LRUCache.delete
LruDelete(key) ==
    /\ lru' = LRUDelete(lru, key)
    /\ lru_op' = [op |-> "delete", key |-> key, before |-> KeysOf(lru),
                  order |-> use_order, moved |-> FALSE]
    /\ UNCHANGED <<now, use_order>>

LruInit ==
    /\ lru = << >>
    /\ use_order = << >>
    /\ lru_op = [op |-> "init", key |-> 0, before |-> {}, order |-> << >>,
                 moved |-> FALSE]

LruNext ==
    \/ \E k \in LruKeys, ttl \in TtlArgs :
          LruPut(k, ttl)
          /\ UNCHANGED <<mem_cache, disk_entries, total_size, disk_files, cache_op,
                         cache_ret, put_deadline>>
          /\ UNCHANGED <<netVars, pipeVars, cascVars, budgetVars, hedgeVars, retryVars,
                         ioVars, guardVars, staleVars, patternVars>>
    \/ \E k \in LruKeys :
          LruGet(k)
          /\ UNCHANGED <<mem_cache, disk_entries, total_size, disk_files, cache_op,
                         cache_ret, put_deadline>>
          /\ UNCHANGED <<netVars, pipeVars, cascVars, budgetVars, hedgeVars, retryVars,
                         ioVars, guardVars, staleVars, patternVars>>
    \/ \E k \in LruKeys :
          LruDelete(k)
          /\ UNCHANGED <<mem_cache, disk_entries, total_size, disk_files, cache_op,
                         cache_ret, put_deadline>>
          /\ UNCHANGED <<netVars, pipeVars, cascVars, budgetVars, hedgeVars, retryVars,
                         ioVars, guardVars, staleVars, patternVars>>
    \/ Tick /\ UNCHANGED <<netVars, pipeVars, cascVars, budgetVars, hedgeVars, retryVars,
                          ioVars, guardVars, staleVars, patternVars, lruVars>>

(***************************************************************************)
(* CircuitBreaker (net/session.py).  Times are in milliseconds; one tick   *)
(* of the clock is one unit of timeout_ms.                                 *)
(***************************************************************************)
circuit_breaker_threshold == 2
circuit_breaker_timeout_ms == 1
max_retries == 1
MaxFailures == 4

Requests == {"r1", "r2"}

IsOpenAtTimeout(cb, t) ==
    IF cb.state = "OPEN"
    THEN IF t - cb.last_failure_time >= circuit_breaker_timeout_ms
         THEN <<FALSE, [cb EXCEPT !.state = "HALF_OPEN"]>>
         ELSE <<TRUE, cb>>
    ELSE <<FALSE, cb>>

\* CircuitBreaker.is_open: <<answer, the breaker afterwards>>
is_open(cb, t) ==
    IF cb.state = "OPEN"
    THEN IF t - cb.last_failure_time > circuit_breaker_timeout_ms
         THEN <<FALSE, [cb EXCEPT !.state = "HALF_OPEN"]>>
         ELSE <<TRUE, cb>>
    ELSE <<FALSE, cb>>

\* CircuitBreaker.record_success
record_success(cb) == [cb EXCEPT !.failure_count = 0, !.state = "CLOSED"]

RecordFailureLate(cb, t) ==
    [state |-> IF cb.failure_count + 1 > circuit_breaker_threshold
               THEN "OPEN" ELSE cb.state,
     failure_count |-> cb.failure_count + 1,
     last_failure_time |-> t]

RecordFailureWhenClosed(cb, t) ==
    [state |-> IF cb.failure_count + 1 >= circuit_breaker_threshold
               THEN "OPEN" ELSE cb.state,
     failure_count |-> IF cb.state = "CLOSED"
                       THEN cb.failure_count + 1 ELSE cb.failure_count,
     last_failure_time |-> t]

\* CircuitBreaker.record_failure
record_failure(cb, t) ==
    [state |-> IF cb.failure_count + 1 >= circuit_breaker_threshold
               THEN "OPEN" ELSE cb.state,
     failure_count |-> cb.failure_count + 1,
     last_failure_time |-> t]

(***************************************************************************)
(* HedgedSession._hedged_request, one step per stretch between awaits      *)
(***************************************************************************)
\* lines 51-65 for attempt 0: the breaker check, then the request is issued
ReqStart(r) ==
    /\ req_pc[r] = "idle"
    /\ LET chk == is_open(breaker, now)
       IN /\ breaker' = chk[2]
          /\ req_attempt' = [req_attempt EXCEPT ![r] = 0]
          /\ IF chk[1]
             THEN /\ req_pc' = [req_pc EXCEPT ![r] = "rejected"]
                  /\ req_sent' = [req_sent EXCEPT ![r] = 0]
             ELSE /\ req_pc' = [req_pc EXCEPT ![r] = "inflight"]
                  /\ req_sent' = [req_sent EXCEPT ![r] = 1]

\* lines 65-69: the awaited request returns a response
ReqSuccess(r) ==
    /\ req_pc[r] = "inflight"
    /\ breaker' = record_success(breaker)
    /\ req_pc' = [req_pc EXCEPT ![r] = "done"]
    /\ UNCHANGED <<req_attempt, req_sent>>

ReqFailureRetrying(r) ==
    /\ req_pc[r] = "inflight"
    /\ breaker.failure_count < MaxFailures
    /\ breaker' = record_failure(breaker, now)
    /\ req_pc' = [req_pc EXCEPT ![r] =
                    IF req_attempt[r] <= max_retries THEN "backoff" ELSE "failed"]
    /\ UNCHANGED <<req_attempt, req_sent>>

\* lines 71-80: the awaited request raises (an error or the client timeout)
ReqFailure(r) ==
    /\ req_pc[r] = "inflight"
    /\ breaker.failure_count < MaxFailures
    /\ breaker' = record_failure(breaker, now)
    /\ req_pc' = [req_pc EXCEPT ![r] =
                    IF req_attempt[r] < max_retries THEN "backoff" ELSE "failed"]
    /\ UNCHANGED <<req_attempt, req_sent>>

\* line 78 returns: the backoff sleep is over, the loop goes on to the jitter
BackoffDone(r) ==
    /\ req_pc[r] = "backoff"
    /\ req_attempt' = [req_attempt EXCEPT ![r] = @ + 1]
    /\ req_pc' = [req_pc EXCEPT ![r] = "jitter"]
    /\ UNCHANGED <<breaker, req_sent>>

\* line 62 returns: the jitter sleep is over, the next attempt is issued
JitterDone(r) ==
    /\ req_pc[r] = "jitter"
    /\ req_pc' = [req_pc EXCEPT ![r] = "inflight"]
    /\ req_sent' = [req_sent EXCEPT ![r] = @ + 1]
    /\ UNCHANGED <<breaker, req_attempt>>

\* the caller has its response or its error; it may call again
ReqReturn(r) ==
    /\ req_pc[r] \in {"done", "failed", "rejected"}
    /\ req_pc' = [req_pc EXCEPT ![r] = "idle"]
    /\ UNCHANGED <<breaker, req_attempt, req_sent>>

NetInit ==
    /\ breaker = [state |-> "CLOSED", failure_count |-> 0, last_failure_time |-> 0]
    /\ req_pc = [r \in Requests |-> "idle"]
    /\ req_attempt = [r \in Requests |-> 0]
    /\ req_sent = [r \in Requests |-> 0]

NetNext ==
    \/ \E r \in Requests : ReqStart(r) /\ UNCHANGED <<cacheVars, pipeVars, cascVars, budgetVars, hedgeVars, retryVars, ioVars, guardVars, staleVars, patternVars, lruVars>>
    \/ \E r \in Requests : ReqSuccess(r) /\ UNCHANGED <<cacheVars, pipeVars, cascVars, budgetVars, hedgeVars, retryVars, ioVars, guardVars, staleVars, patternVars, lruVars>>
    \/ \E r \in Requests : ReqFailure(r) /\ UNCHANGED <<cacheVars, pipeVars, cascVars, budgetVars, hedgeVars, retryVars, ioVars, guardVars, staleVars, patternVars, lruVars>>
    \/ \E r \in Requests : BackoffDone(r) /\ UNCHANGED <<cacheVars, pipeVars, cascVars, budgetVars, hedgeVars, retryVars, ioVars, guardVars, staleVars, patternVars, lruVars>>
    \/ \E r \in Requests : JitterDone(r) /\ UNCHANGED <<cacheVars, pipeVars, cascVars, budgetVars, hedgeVars, retryVars, ioVars, guardVars, staleVars, patternVars, lruVars>>
    \/ \E r \in Requests : ReqReturn(r) /\ UNCHANGED <<cacheVars, pipeVars, cascVars, budgetVars, hedgeVars, retryVars, ioVars, guardVars, staleVars, patternVars, lruVars>>
    \/ Tick /\ UNCHANGED <<netVars, pipeVars, cascVars, budgetVars, hedgeVars, retryVars, ioVars, guardVars, staleVars, patternVars, lruVars>>

(***************************************************************************)
(* StreamingPipeline                                                       *)
(***************************************************************************)
queue_size == 1

\* query ids: one more than a queue holds
Queries == 1..(queue_size + 1)

\* query ids for a stage that loses one task to a failure, passes on as many as
\* the next queue holds and takes one more
LoopQueries == 1..(queue_size + 2)

Stages == 1..4

NoTask == [query_id |-> 0, kind |-> "none"]

\* get_result's timeout in polling intervals of 0.1 s
MaxPolls == 2

\* nobody is in get_result
NoCall == [query_id |-> 0, at |-> "idle", polls |-> 0, result |-> NoTask]

\* the class of the task each stage's _process_* reads attributes of
Expected(i) ==
    CASE i = 1 -> "SearchTask" [] i = 2 -> "EmbeddingTask"
      [] i = 3 -> "RerankTask" [] i = 4 -> "JudgeTask"

Bump(f, i) == [f EXCEPT ![i] = @ + 1]

Full(i) == Len(queue[i]) >= queue_size

\* BaseQueue.put when asyncio.Queue.put goes through: lines 65-66
Enqueue(i, task) ==
    /\ queue' = [queue EXCEPT ![i] = Append(@, task)]
    /\ total_put' = Bump(total_put, i)

\* the stages whose start() reaches its loop.  EmbeddingWorker.start calls
\* get_embedder(use_local_embed=True) before its loop and outside any try; when
\* the call raises, the stage's task ends there.  loaded: the call returns.
\* The imports made in start() are taken to resolve.
\* embed.py:171 names the parameter use_local, so with embed.py as it stands the
\* call raises TypeError on every start; the other outcome is kept, so that what
\* holds of the later stages holds whichever way the call goes.
Looping(loaded) == IF loaded THEN Stages ELSE Stages \ {2}

StartUnguarded(loaded) ==
    /\ is_running' = TRUE
    /\ tasks' = [i \in Stages |-> 1]
    /\ live_loops' = [i \in Stages |->
                        live_loops[i] + (IF i \in Looping(loaded) THEN 1 ELSE 0)]
    /\ loop_pc' = [i \in Stages |-> IF i \in Looping(loaded) THEN "get" ELSE "none"]
    /\ UNCHANGED <<queue, total_put, total_dropped, full_puts, loop_task,
                   tasks_processed, errors, results, judge_results, sub_pc,
                   undisturbed, getter>>

\* StreamingPipeline.start: one create_task per stage, unless already running
Start(loaded) ==
    IF is_running
    THEN UNCHANGED pipeVars
    ELSE /\ is_running' = TRUE
         /\ tasks' = [i \in Stages |-> 1]
         /\ live_loops' = [i \in Stages |->
                             live_loops[i] + (IF i \in Looping(loaded) THEN 1 ELSE 0)]
         /\ loop_pc' = [i \in Stages |->
                          IF i \in Looping(loaded) THEN "get" ELSE "none"]
         /\ UNCHANGED <<queue, total_put, total_dropped, full_puts, loop_task,
                        tasks_processed, errors, results, judge_results, sub_pc,
                        undisturbed, getter>>

\* StreamingPipeline.stop: the loops in self.tasks are cancelled where they
\* stand and awaited; each ends at its except asyncio.CancelledError: break.
\* Cancelling a task that has ended already does nothing.
Stop ==
    IF ~is_running
    THEN UNCHANGED pipeVars
    ELSE /\ is_running' = FALSE
         /\ live_loops' = [i \in Stages |->
                             live_loops[i] - (IF loop_pc[i] = "none" THEN 0 ELSE tasks[i])]
         /\ loop_pc' = [i \in Stages |-> "none"]
         /\ loop_task' = [i \in Stages |-> NoTask]
         /\ undisturbed' = FALSE
         /\ UNCHANGED <<queue, total_put, total_dropped, full_puts, tasks_processed,
                        errors, results, judge_results, sub_pc, tasks, getter>>

\* StreamingPipeline.submit_query (kind "dict": the task it builds is a dict) and
\* SearchQueue.put_search_task called with a SearchTask (kind "SearchTask").
\* await self.queue.put(item) waits while the queue is full.
Submit(q, kind) ==
    /\ sub_pc[q].at = "new"
    /\ IF kind = "dict" /\ ~is_running
       THEN /\ sub_pc' = [sub_pc EXCEPT ![q] = [at |-> "error", kind |-> kind]]
            /\ UNCHANGED <<queue, total_put, full_puts>>
       ELSE IF Full(1)
       THEN /\ sub_pc' = [sub_pc EXCEPT ![q] = [at |-> "blocked", kind |-> kind]]
            /\ full_puts' = Bump(full_puts, 1)
            /\ UNCHANGED <<queue, total_put>>
       ELSE /\ sub_pc' = [sub_pc EXCEPT ![q] = [at |-> "returned", kind |-> kind]]
            /\ Enqueue(1, [query_id |-> q, kind |-> kind])
            /\ UNCHANGED full_puts
    /\ UNCHANGED <<is_running, total_dropped, loop_pc, loop_task, tasks_processed,
                   errors, results, judge_results, undisturbed>>
    /\ UNCHANGED <<tasks, live_loops, getter>>

\* a submission waiting in queue.put is woken once the queue has room
SubmitResume(q) ==
    /\ sub_pc[q].at = "blocked"
    /\ ~Full(1)
    /\ Enqueue(1, [query_id |-> q, kind |-> sub_pc[q].kind])
    /\ sub_pc' = [sub_pc EXCEPT ![q].at = "returned"]
    /\ UNCHANGED <<is_running, total_dropped, full_puts, loop_pc, loop_task,
                   tasks_processed, errors, results, judge_results, undisturbed>>
    /\ UNCHANGED <<tasks, live_loops, getter>>

\* *Worker.start: task = await self.input_queue.get_*_task()
StageGet(i) ==
    /\ loop_pc[i] = "get"
    /\ Len(queue[i]) > 0
    /\ loop_task' = [loop_task EXCEPT ![i] = Head(queue[i])]
    /\ queue' = [queue EXCEPT ![i] = Tail(@)]
    /\ loop_pc' = [loop_pc EXCEPT ![i] = "process"]
    /\ UNCHANGED <<is_running, total_put, total_dropped, full_puts, tasks_processed,
                   errors, results, judge_results, sub_pc, undisturbed>>
    /\ UNCHANGED <<tasks, live_loops, getter>>

ReleaseKeepingTask(i) ==
    /\ loop_pc' = [loop_pc EXCEPT ![i] = "get"]
    /\ UNCHANGED loop_task

\* the stage is done with its task and waits for the next one
Release(i) ==
    /\ loop_pc' = [loop_pc EXCEPT ![i] = "get"]
    /\ loop_task' = [loop_task EXCEPT ![i] = NoTask]

\* _process_*_task with a handler that passes the task on after counting the
\* failure
StageProcessForwarding(i, ok) ==
    /\ loop_pc[i] = "process"
    /\ LET task == loop_task[i]
           derived == [query_id |-> task.query_id,
                       kind |-> IF i < 4 THEN Expected(i + 1) ELSE "result"]
       IN /\ errors' = IF ok THEN errors ELSE Bump(errors, i)
          /\ tasks_processed' = IF ok THEN Bump(tasks_processed, i) ELSE tasks_processed
          /\ undisturbed' = (undisturbed /\ ok)
          /\ Release(i)
          /\ IF i = 4
             THEN /\ judge_results' =
                        (task.query_id :> [query_id |-> task.query_id,
                                           status |-> "completed"]) @@ judge_results
                  /\ UNCHANGED <<queue, total_put>>
             ELSE IF Full(i + 1)
             THEN UNCHANGED <<queue, total_put, judge_results>>
             ELSE Enqueue(i + 1, derived) /\ UNCHANGED judge_results
          /\ UNCHANGED full_puts
    /\ UNCHANGED <<is_running, total_dropped, results, sub_pc>>
    /\ UNCHANGED <<tasks, live_loops, getter>>

\* *Worker._process_*_task.  ok: the stage's external call (provider search,
\* embedder, rerank service, judge) succeeds.  A task of another class than the
\* stage expects has none of the attributes read: the AttributeError raised in
\* the try block is raised again by the handler's log line and is counted by
\* start().
StageProcess(i, ok) ==
    /\ loop_pc[i] = "process"
    /\ LET task == loop_task[i]
           derived == [query_id |-> task.query_id,
                       kind |-> IF i < 4 THEN Expected(i + 1) ELSE "result"]
       IN IF task.kind # Expected(i) \/ ~ok
          THEN /\ errors' = Bump(errors, i)
               /\ Release(i)
               /\ undisturbed' = (undisturbed /\ ok)
               /\ UNCHANGED <<queue, total_put, full_puts, tasks_processed,
                              judge_results>>
          ELSE IF i = 4
          THEN /\ judge_results' =
                     (task.query_id :> [query_id |-> task.query_id,
                                        status |-> "completed"]) @@ judge_results
               /\ tasks_processed' = Bump(tasks_processed, i)
               /\ Release(i)
               /\ UNCHANGED <<queue, total_put, full_puts, errors, undisturbed>>
          ELSE IF Full(i + 1)
          THEN /\ loop_pc' = [loop_pc EXCEPT ![i] = "put"]
               /\ loop_task' = [loop_task EXCEPT ![i] = derived]
               /\ full_puts' = Bump(full_puts, i + 1)
               /\ UNCHANGED <<queue, total_put, tasks_processed, errors,
                              judge_results, undisturbed>>
          ELSE /\ Enqueue(i + 1, derived)
               /\ tasks_processed' = Bump(tasks_processed, i)
               /\ Release(i)
               /\ UNCHANGED <<full_puts, errors, judge_results, undisturbed>>
    /\ UNCHANGED <<is_running, total_dropped, results, sub_pc>>
    /\ UNCHANGED <<tasks, live_loops, getter>>

\* a stage waiting in output_queue.put is woken once that queue has room
StagePutResume(i) ==
    /\ loop_pc[i] = "put"
    /\ ~Full(i + 1)
    /\ Enqueue(i + 1, loop_task[i])
    /\ tasks_processed' = Bump(tasks_processed, i)
    /\ Release(i)
    /\ UNCHANGED <<is_running, total_dropped, full_puts, errors, results,
                   judge_results, sub_pc, undisturbed>>
    /\ UNCHANGED <<tasks, live_loops, getter>>

\* StreamingPipeline.get_result: what one look at self.results finds
get_result(q) == IF q \in DOMAIN results THEN results[q] ELSE NoTask

\* StreamingPipeline.get_result up to its first await: lines 129-137
GetResultCall(q) ==
    /\ getter.at = "idle"
    /\ getter' = IF q \in DOMAIN results
                 THEN [query_id |-> q, at |-> "returned", polls |-> 0,
                       result |-> get_result(q)]
                 ELSE [query_id |-> q, at |-> "polling", polls |-> 1,
                       result |-> NoTask]
    /\ UNCHANGED <<is_running, queue, total_put, total_dropped, full_puts, loop_pc,
                   loop_task, tasks_processed, errors, results, judge_results,
                   sub_pc, undisturbed, tasks, live_loops>>

\* asyncio.sleep(0.1) returns: the time check of line 133, then one more look
\* or lines 139-140
GetResultWake ==
    /\ getter.at = "polling"
    /\ getter' = IF getter.polls >= MaxPolls
                 THEN [getter EXCEPT !.at = "timeout"]
                 ELSE IF getter.query_id \in DOMAIN results
                 THEN [getter EXCEPT !.at = "returned",
                                     !.result = get_result(getter.query_id)]
                 ELSE [getter EXCEPT !.polls = @ + 1]
    /\ UNCHANGED <<is_running, queue, total_put, total_dropped, full_puts, loop_pc,
                   loop_task, tasks_processed, errors, results, judge_results,
                   sub_pc, undisturbed, tasks, live_loops>>

\* the caller has its result or its None
GetResultReturn ==
    /\ getter.at \in {"returned", "timeout"}
    /\ getter' = NoCall
    /\ UNCHANGED <<is_running, queue, total_put, total_dropped, full_puts, loop_pc,
                   loop_task, tasks_processed, errors, results, judge_results,
                   sub_pc, undisturbed, tasks, live_loops>>

PipeInit ==
    /\ is_running = FALSE
    /\ queue = [i \in Stages |-> << >>]
    /\ total_put = [i \in Stages |-> 0]
    /\ total_dropped = [i \in Stages |-> 0]
    /\ full_puts = [i \in Stages |-> 0]
    /\ loop_pc = [i \in Stages |-> "none"]
    /\ loop_task = [i \in Stages |-> NoTask]
    /\ tasks_processed = [i \in Stages |-> 0]
    /\ errors = [i \in Stages |-> 0]
    /\ results = << >>
    /\ judge_results = << >>
    /\ sub_pc = [q \in LoopQueries |-> [at |-> "new", kind |-> "none"]]
    /\ undisturbed = TRUE
    /\ tasks = [i \in Stages |-> 0]
    /\ live_loops = [i \in Stages |-> 0]
    /\ getter = NoCall

PipeNext ==
    \/ \E loaded \in BOOLEAN : Start(loaded) /\ UNCHANGED <<cacheVars, netVars, cascVars, budgetVars, hedgeVars, retryVars, ioVars, guardVars, staleVars, patternVars, lruVars>>
    \/ Stop /\ UNCHANGED <<cacheVars, netVars, cascVars, budgetVars, hedgeVars, retryVars, ioVars, guardVars, staleVars, patternVars, lruVars>>
    \/ \E q \in Queries, kind \in {"dict", "SearchTask"} :
          Submit(q, kind) /\ UNCHANGED <<cacheVars, netVars, cascVars, budgetVars, hedgeVars, retryVars, ioVars, guardVars, staleVars, patternVars, lruVars>>
    \/ \E q \in Queries : SubmitResume(q) /\ UNCHANGED <<cacheVars, netVars, cascVars, budgetVars, hedgeVars, retryVars, ioVars, guardVars, staleVars, patternVars, lruVars>>
    \/ \E i \in Stages : StageGet(i) /\ UNCHANGED <<cacheVars, netVars, cascVars, budgetVars, hedgeVars, retryVars, ioVars, guardVars, staleVars, patternVars, lruVars>>
    \/ \E i \in Stages, ok \in BOOLEAN :
          StageProcess(i, ok) /\ UNCHANGED <<cacheVars, netVars, cascVars, budgetVars, hedgeVars, retryVars, ioVars, guardVars, staleVars, patternVars, lruVars>>
    \/ \E i \in 1..3 : StagePutResume(i) /\ UNCHANGED <<cacheVars, netVars, cascVars, budgetVars, hedgeVars, retryVars, ioVars, guardVars, staleVars, patternVars, lruVars>>

\* the pipeline with a caller polling for results
PollNext ==
    \/ PipeNext
    \/ \E q \in Queries :
          GetResultCall(q) /\ UNCHANGED <<cacheVars, netVars, cascVars, budgetVars, hedgeVars, retryVars, ioVars, guardVars, staleVars, patternVars, lruVars>>
    \/ GetResultWake /\ UNCHANGED <<cacheVars, netVars, cascVars, budgetVars, hedgeVars, retryVars, ioVars, guardVars, staleVars, patternVars, lruVars>>
    \/ GetResultReturn /\ UNCHANGED <<cacheVars, netVars, cascVars, budgetVars, hedgeVars, retryVars, ioVars, guardVars, staleVars, patternVars, lruVars>>

(***************************************************************************)
(* JudgeCascade.  Scores and confidences are in hundredths.                *)
(***************************************************************************)
high_confidence_threshold == 80
low_confidence_threshold == 30
min_quality_for_heuristic == 60

JudgeNames == {"heuristic", "llm", "confidence"}

InSeq(x, seq) == \E i \in 1..Len(seq) : seq[i] = x

\* what a judge's evaluate() does on one invocation: it raises, or it returns a
\* JudgeResult with this confidence and relevance
Raises == [ok |-> FALSE, confidence |-> 0, relevance_score |-> 0]

Returns(c, r) == [ok |-> TRUE, confidence |-> c, relevance_score |-> r]

\* the behaviour of the judges during one evaluate() call: for each judge, what
\* its first and its second invocation do
JudgeBehaviours ==
    [heuristic : {Raises, Returns(90, 50), Returns(80, 50), Returns(50, 70),
                  Returns(50, 50), Returns(30, 90), Returns(20, 90)}
                 \X {Raises, Returns(20, 90)},
     llm : {Raises, Returns(70, 80)} \X {Raises, Returns(70, 80)},
     confidence : {Raises, Returns(40, 70)} \X {Raises}]

NoResult == [ok |-> FALSE, confidence |-> 0, relevance_score |-> 0,
             judge_type |-> "none", call |-> << >>]

\* lines 125-130
DefaultResult == [ok |-> TRUE, confidence |-> 0, relevance_score |-> 50,
                  judge_type |-> "default", call |-> <<"default", 0>>]

\* JudgeCascade._try_judge, for the n-th invocation of the judge in this call:
\* the judge's result, or NoResult (None) when it raised
_try_judge(judge_name, n, o) ==
    IF o[judge_name][n].ok
    THEN [ok |-> TRUE, confidence |-> o[judge_name][n].confidence,
          relevance_score |-> o[judge_name][n].relevance_score,
          judge_type |-> judge_name, call |-> <<judge_name, n>>]
    ELSE NoResult

ShouldAcceptAbove(result) ==
    IF ~casc_config.enable_confidence_based_routing THEN TRUE
    ELSE IF result.confidence > high_confidence_threshold THEN TRUE
    ELSE IF result.confidence <= low_confidence_threshold THEN FALSE
    ELSE result.relevance_score >= min_quality_for_heuristic

ShouldAcceptAtLow(result) ==
    IF ~casc_config.enable_confidence_based_routing THEN TRUE
    ELSE IF result.confidence >= high_confidence_threshold THEN TRUE
    ELSE IF result.confidence < low_confidence_threshold THEN FALSE
    ELSE result.relevance_score >= min_quality_for_heuristic

\* JudgeCascade._should_accept_result
_should_accept_result(result) ==
    IF ~casc_config.enable_confidence_based_routing THEN TRUE
    ELSE IF result.confidence >= high_confidence_threshold THEN TRUE
    ELSE IF result.confidence <= low_confidence_threshold THEN FALSE
    ELSE result.relevance_score >= min_quality_for_heuristic

\* a call in progress: the judges invoked so far and what _try_judge gave
Invoke(run, judge_name, o) ==
    LET n == 1 + Cardinality({i \in 1..Len(run.invoked) :
                                 run.invoked[i] = judge_name})
    IN [invoked |-> Append(run.invoked, judge_name),
        outcomes |-> Append(run.outcomes, _try_judge(judge_name, n, o))]

Last(run) == run.outcomes[Len(run.outcomes)]

Returned(js, run, result) ==
    [judges |-> js, status |-> "returned", result |-> result,
     invoked |-> run.invoked, outcomes |-> run.outcomes]

\* lines 117-130: for judge_name, judge in self.judges.items(), then the default
RECURSIVE Fallback(_, _, _, _)
Fallback(js, i, run, o) ==
    IF i > Len(js)
    THEN Returned(js, run, DefaultResult)
    ELSE LET r == Invoke(run, js[i], o)
         IN IF Last(r).ok THEN Returned(js, r, Last(r))
            ELSE Fallback(js, i + 1, r, o)

\* JudgeCascade.evaluate, lines 103-130
Cascade(js, o) ==
    LET r0 == [invoked |-> << >>, outcomes |-> << >>]
        useH == casc_config.enable_heuristic_first /\ InSeq("heuristic", js)
        r1 == IF useH THEN Invoke(r0, "heuristic", o) ELSE r0
        useL == casc_config.enable_llm_fallback /\ InSeq("llm", js)
        r2 == IF useL THEN Invoke(r1, "llm", o) ELSE r1
    IN IF useH /\ Last(r1).ok /\ _should_accept_result(Last(r1))
       THEN Returned(js, r1, Last(r1))
       ELSE IF useL /\ Last(r2).ok
       THEN Returned(js, r2, Last(r2))
       ELSE Fallback(js, 1, r2, o)

EvaluateUnguarded(js, o) == Cascade(js, o)

\* JudgeCascade.evaluate
evaluate(js, o) ==
    IF js = << >>
    THEN [judges |-> js, status |-> "raised", result |-> NoResult,
          invoked |-> << >>, outcomes |-> << >>]
    ELSE Cascade(js, o)

NoEval == [judges |-> << >>, status |-> "none", result |-> NoResult,
           invoked |-> << >>, outcomes |-> << >>]

\* CascadeConfig.adaptation_window
adaptation_window == 1

\* evaluate() is called while no judge's evaluation_count has reached the limit
MaxCount == 1

TrackMaxCount == 2

Capped(limit) == \A n \in JudgeNames : evaluation_count[n] < limit

\* the entry _finalize_result appends for a result
HistoryEntry(result) ==
    [judge_type |-> result.judge_type, confidence |-> result.confidence,
     relevance_score |-> result.relevance_score]

\* self.performance_history[-self.config.adaptation_window:]
LastEntries(history, n) ==
    IF Len(history) > n
    THEN SubSeq(history, Len(history) - n + 1, Len(history)) ELSE history

\* JudgeCascade._finalize_result, lines 170-189: called with the result of a
\* judge; the default result is returned at lines 125-130 without it
_finalize_result(history, ev) ==
    IF ev.status = "returned" /\ ev.result.judge_type # "default"
         /\ casc_config.track_performance
    THEN LastEntries(Append(history, HistoryEntry(ev.result)), adaptation_window)
    ELSE history

\* lines 142-144: the invocations of the judge in this call that returned
Counted(ev, name) ==
    Cardinality({i \in 1..Len(ev.invoked) :
                    ev.invoked[i] = name /\ ev.outcomes[i].ok})

\* CascadeConfig's defaults, lines 15-17
DefaultThresholds ==
    [high |-> high_confidence_threshold, low |-> low_confidence_threshold,
     min_quality |-> min_quality_for_heuristic]

NoAdapt == [called |-> FALSE, before |-> DefaultThresholds, judges |-> << >>]

\* JudgeCascade.__init__ with a CascadeConfig whose high_confidence_threshold
\* is high
NewCascadeWith(cfg, high) ==
    /\ casc_config' = cfg
    /\ judges' = << >>
    /\ last_eval' = NoEval
    /\ performance_history' = << >>
    /\ evaluation_count' = [n \in JudgeNames |-> 0]
    /\ thresholds' = [DefaultThresholds EXCEPT !.high = high]
    /\ last_thresholds' = NoAdapt

\* JudgeCascade.__init__ with a CascadeConfig
NewCascade(cfg) == NewCascadeWith(cfg, high_confidence_threshold)

\* JudgeCascade.add_judge
AddJudge(name) ==
    /\ judges' = IF InSeq(name, judges) THEN judges ELSE Append(judges, name)
    /\ last_thresholds' = NoAdapt
    /\ UNCHANGED <<casc_config, last_eval, performance_history, evaluation_count,
                   thresholds>>

Evaluate(o) ==
    /\ LET ev == evaluate(judges, o)
       IN /\ last_eval' = ev
          /\ performance_history' = _finalize_result(performance_history, ev)
          /\ evaluation_count' =
                [n \in JudgeNames |-> evaluation_count[n] + Counted(ev, n)]
    /\ UNCHANGED <<judges, casc_config, thresholds, last_thresholds>>

CascConfigs ==
    [enable_heuristic_first : BOOLEAN, enable_llm_fallback : BOOLEAN,
     enable_confidence_based_routing : BOOLEAN, track_performance : BOOLEAN]

CascInit ==
    /\ judges = << >>
    /\ casc_config = [enable_heuristic_first |-> TRUE, enable_llm_fallback |-> TRUE,
                      enable_confidence_based_routing |-> TRUE,
                      track_performance |-> TRUE]
    /\ last_eval = NoEval
    /\ performance_history = << >>
    /\ evaluation_count = [n \in JudgeNames |-> 0]
    /\ thresholds = DefaultThresholds
    /\ last_thresholds = NoAdapt

CascNext ==
    \/ \E cfg \in CascConfigs :
          NewCascade(cfg) /\ UNCHANGED <<cacheVars, netVars, pipeVars, budgetVars, hedgeVars, retryVars, ioVars, guardVars, staleVars, patternVars, lruVars>>
    \/ \E name \in JudgeNames :
          AddJudge(name) /\ UNCHANGED <<cacheVars, netVars, pipeVars, budgetVars, hedgeVars, retryVars, ioVars, guardVars, staleVars, patternVars, lruVars>>
    \/ \E o \in JudgeBehaviours :
          Capped(MaxCount) /\ Evaluate(o) /\ UNCHANGED <<cacheVars, netVars, pipeVars, budgetVars, hedgeVars, retryVars, ioVars, guardVars, staleVars, patternVars, lruVars>>

\* a cascade with every routing flag on, with and without tracking, and judges
\* that raise or return one result each
TrackConfigs ==
    {cfg \in CascConfigs : /\ cfg.enable_heuristic_first
                           /\ cfg.enable_llm_fallback
                           /\ cfg.enable_confidence_based_routing}

TrackBehaviours ==
    [heuristic : {Raises, Returns(90, 50), Returns(20, 90)} \X {Raises, Returns(20, 90)},
     llm : {Raises, Returns(70, 80)} \X {Raises, Returns(70, 80)},
     confidence : {Raises, Returns(40, 70)} \X {Raises}]

TrackNext ==
    \/ \E cfg \in TrackConfigs :
          NewCascade(cfg) /\ UNCHANGED <<cacheVars, netVars, pipeVars, budgetVars, hedgeVars, retryVars, ioVars, guardVars, staleVars, patternVars, lruVars>>
    \/ \E name \in JudgeNames :
          AddJudge(name) /\ UNCHANGED <<cacheVars, netVars, pipeVars, budgetVars, hedgeVars, retryVars, ioVars, guardVars, staleVars, patternVars, lruVars>>
    \/ \E o \in TrackBehaviours :
          Capped(TrackMaxCount) /\ Evaluate(o) /\ UNCHANGED <<cacheVars, netVars, pipeVars, budgetVars, hedgeVars, retryVars, ioVars, guardVars, staleVars, patternVars, lruVars>>

\* a run of n equal history entries
Rep(entry, n) == [i \in 1..n |-> entry]

\* the confidences of the heuristic judge's entries of a history, summed
RECURSIVE SumConfidence(_)
SumConfidence(history) ==
    IF history = << >> THEN 0
    ELSE Head(history).confidence + SumConfidence(Tail(history))

OfJudge(history, judge_type) ==
    SelectSeq(history, LAMBDA entry : entry.judge_type = judge_type)

Smaller(a, b) == IF a < b THEN a ELSE b

Larger(a, b) == IF a > b THEN a ELSE b

\* lines 230-240 for the heuristic judge's confidences among the entries given:
\* sum/len > 0.7 and sum/len < 0.5 are compared as sum > 70 * len and
\* sum < 50 * len, the step of 0.05 is 5
AdaptHigh(t, recent) ==
    LET confidences == OfJudge(recent, "heuristic")
        n == Len(confidences)
        total == SumConfidence(confidences)
    IN IF n >= 5 /\ total > 70 * n
       THEN [t EXCEPT !.high = Smaller(90, t.high + 5)]
       ELSE IF n >= 5 /\ total < 50 * n
       THEN [t EXCEPT !.high = Larger(60, t.high - 5)]
       ELSE t

\* adapt_thresholds looking at the whole history
AdaptOverAll(t, history) ==
    IF ~casc_config.track_performance \/ Len(history) < 10 THEN t
    ELSE AdaptHigh(t, history)

\* JudgeCascade.adapt_thresholds, lines 213-243
adapt_thresholds(t, history) ==
    IF ~casc_config.track_performance \/ Len(history) < 10 THEN t
    ELSE AdaptHigh(t, LastEntries(history, 20))

AdaptThresholds ==
    /\ thresholds' = adapt_thresholds(thresholds, performance_history)
    /\ last_thresholds' = [called |-> TRUE, before |-> thresholds, judges |-> judges]
    /\ UNCHANGED <<judges, casc_config, last_eval, performance_history,
                   evaluation_count>>

\* the entries that evaluate() calls left in the history of a cascade whose
\* adaptation_window is the default 50: results of the heuristic judge with
\* confidence 0.9, 0.7, 0.5 and 0.3 and of the LLM judge with 0.95
AdaptEntries ==
    {[judge_type |-> "heuristic", confidence |-> c, relevance_score |-> 50] :
        c \in {90, 70, 50, 30}}
    \cup {[judge_type |-> "llm", confidence |-> 95, relevance_score |-> 80]}

AdaptHistories ==
    {Rep(a, m) \o Rep(b, n) :
        a \in AdaptEntries, b \in AdaptEntries, m \in {0, 5, 16}, n \in {4, 5, 14}}

Recorded(history) ==
    /\ casc_config.track_performance
    /\ performance_history' = history
    /\ last_thresholds' = NoAdapt
    /\ UNCHANGED <<judges, casc_config, last_eval, evaluation_count, thresholds>>

\* a cascade built with a high threshold inside, below or above the range
\* adapt_thresholds keeps to
AdaptHighs == {55, 80, 95}

AdaptNext ==
    \/ \E cfg \in TrackConfigs, high \in AdaptHighs :
          NewCascadeWith(cfg, high) /\ UNCHANGED <<cacheVars, netVars, pipeVars, budgetVars, hedgeVars, retryVars, ioVars, guardVars, staleVars, patternVars, lruVars>>
    \/ \E name \in {"heuristic", "llm"} :
          AddJudge(name) /\ UNCHANGED <<cacheVars, netVars, pipeVars, budgetVars, hedgeVars, retryVars, ioVars, guardVars, staleVars, patternVars, lruVars>>
    \/ \E history \in AdaptHistories :
          Recorded(history) /\ UNCHANGED <<cacheVars, netVars, pipeVars, budgetVars, hedgeVars, retryVars, ioVars, guardVars, staleVars, patternVars, lruVars>>
    \/ AdaptThresholds /\ UNCHANGED <<cacheVars, netVars, pipeVars, budgetVars, hedgeVars, retryVars, ioVars, guardVars, staleVars, patternVars, lruVars>>

(***************************************************************************)
(* BudgetManager.  Qualities are in hundredths, times in milliseconds.     *)
(***************************************************************************)
fast_time_budget == 2000
balanced_time_budget == 5000
thorough_time_budget == 10000
upgrade_quality_threshold == 80
downgrade_time_threshold == 90

Tiers == <<"fast", "balanced", "thorough">>

Rank(tier) == CHOOSE i \in 1..3 : Tiers[i] = tier

\* qualities and times on both sides of every threshold
Qualities == {50, 79, 80, 95}

Times == {0, 999, 1000, 1801, 2499, 2500, 4500, 4501, 5000, 9001}

\* BudgetManager.get_time_budget
get_time_budget(tier) ==
    CASE tier = "fast" -> fast_time_budget
      [] tier = "balanced" -> balanced_time_budget
      [] tier = "thorough" -> thorough_time_budget

\* should_upgrade_tier asking for a quality above the threshold
ShouldUpgradeAbove(tier, current_quality, current_time) ==
    /\ tier # "thorough"
    /\ current_quality > upgrade_quality_threshold
    /\ 2 * current_time < get_time_budget(tier)

\* BudgetManager.should_upgrade_tier: current_time < time_budget * 0.5
should_upgrade_tier(tier, current_quality, current_time) ==
    /\ tier # "thorough"
    /\ current_quality >= upgrade_quality_threshold
    /\ 2 * current_time < get_time_budget(tier)

\* BudgetManager.should_downgrade_tier
should_downgrade_tier(tier, current_quality, current_time) ==
    /\ tier # "fast"
    /\ 100 * current_time > get_time_budget(tier) * downgrade_time_threshold

AdaptTierToTop(tier, quality, time_ms) ==
    IF should_upgrade_tier(tier, quality, time_ms) THEN "thorough"
    ELSE IF should_downgrade_tier(tier, quality, time_ms) THEN "fast"
    ELSE tier

\* BudgetManager.adapt_tier, lines 118-128: the new tier
adapt_tier(tier, quality, time_ms) ==
    IF should_upgrade_tier(tier, quality, time_ms)
    THEN (IF tier = "fast" THEN "balanced"
          ELSE IF tier = "balanced" THEN "thorough" ELSE tier)
    ELSE IF should_downgrade_tier(tier, quality, time_ms)
    THEN (IF tier = "thorough" THEN "balanced"
          ELSE IF tier = "balanced" THEN "fast" ELSE tier)
    ELSE tier

\* BudgetConfig.adaptation_window
budget_adaptation_window == 2

\* adapt_tier is called while the history holds fewer entries than this, and
\* the clock stops here
MaxHistory == 3
MaxMinutes == 3

\* BudgetManager._apply_decay: the cutoff is adaptation_window * 60 seconds
\* before the current time
_apply_decay(history, current_time) ==
    SelectSeq(history,
              LAMBDA entry : entry.timestamp > current_time - budget_adaptation_window)

\* BudgetManager.adapt_tier
AdaptTier(quality, time_ms) ==
    /\ budget_history' =
          _apply_decay(Append(budget_history,
                              [tier |-> current_tier, timestamp |-> budget_clock]),
                       budget_clock)
    /\ UNCHANGED budget_clock
    /\ current_tier' = adapt_tier(current_tier, quality, time_ms)
    /\ last_adapt' = [called |-> TRUE, old_tier |-> current_tier,
                      quality |-> quality, time_ms |-> time_ms]
    /\ since_fast' = IF current_tier' = "fast" THEN 0
                     ELSE IF since_fast < 2 THEN since_fast + 1 ELSE 2

\* a context: the caller's user_preference, "none" without the key, and the
\* time_budget_ms, with has_time false without the key
NoContext == [user_preference |-> "none", has_time |-> FALSE, time_budget_ms |-> 0]

NoSelect == [called |-> FALSE, old_tier |-> "enhanced",
             query |-> [length |-> 0, matches |-> 0], context |-> NoContext]

NoConfig == [returned |-> FALSE, tier |-> "enhanced", budget_tier |-> "balanced",
             time_budget_ms |-> 0, quality_target |-> 0, max_results |-> 0,
             enable_hedging |-> FALSE, enable_caching |-> FALSE,
             enable_filtering |-> FALSE, enable_streaming |-> FALSE,
             rerank_topk |-> 0, q_max |-> 0, d_max |-> 0, quality_threshold |-> 0]

BudgetInit ==
    /\ current_tier = "balanced"
    /\ last_adapt = [called |-> FALSE, old_tier |-> "balanced", quality |-> 0,
                     time_ms |-> 0]
    /\ since_fast = 2
    /\ retrieval_tier = "enhanced"
    /\ last_select = NoSelect
    /\ last_config = NoConfig
    /\ budget_history = << >>
    /\ budget_clock = 0

\* a minute passes
Elapse ==
    /\ budget_clock < MaxMinutes
    /\ budget_clock' = budget_clock + 1
    /\ UNCHANGED <<current_tier, last_adapt, since_fast, retrieval_tier, last_select,
                   last_config, budget_history>>

BudgetNext ==
    \E quality \in Qualities, time_ms \in Times :
        Len(budget_history) < MaxHistory /\ AdaptTier(quality, time_ms)
        /\ UNCHANGED <<retrieval_tier, last_select, last_config>>
        /\ UNCHANGED <<cacheVars, netVars, pipeVars, cascVars, hedgeVars, retryVars, ioVars, guardVars, staleVars, patternVars, lruVars>>

\* adapt_tier calls any time apart
HistoryNext ==
    \/ \E quality \in {50, 95}, time_ms \in {0, 9001} :
          Len(budget_history) < MaxHistory /\ AdaptTier(quality, time_ms)
          /\ UNCHANGED <<retrieval_tier, last_select, last_config>>
          /\ UNCHANGED <<cacheVars, netVars, pipeVars, cascVars, hedgeVars, retryVars, ioVars, guardVars, staleVars, patternVars, lruVars>>
    \/ Elapse /\ UNCHANGED <<cacheVars, netVars, pipeVars, cascVars, hedgeVars, retryVars, ioVars, guardVars, staleVars, patternVars, lruVars>>

(***************************************************************************)
(* hedge_requests (net/hedging.py)                                         *)
(***************************************************************************)
NumHedges == 3
hedge_max_concurrent == 2

Priorities == {1, 2}

HedgeLists == UNION {[1..n -> Priorities] : n \in 1..NumHedges}

\* hedges.sort(key=lambda x: x.priority, reverse=True): the list's positions in
\* sorted order; the sort is stable
SortByPriority(prios) ==
    LET before(i) == {j \in DOMAIN prios :
                        prios[j] > prios[i] \/ (prios[j] = prios[i] /\ j < i)}
    IN [k \in DOMAIN prios |->
          CHOOSE i \in DOMAIN prios : Cardinality(before(i)) = k - 1]

NotCalled == [at |-> "none", success |-> FALSE, hedge |-> 0]

\* candidates inside async with semaphore
HoldingSemaphore == {h \in DOMAIN hedge_pc : hedge_pc[h] \in {"sleeping", "inflight"}}

\* hedge_requests up to its await: lines 42-94
HedgeCall(prios) ==
    /\ hedge_ret.at \in {"none", "returned"}
    /\ hedges' = SortByPriority(prios)
    /\ hedge_pc' = [h \in DOMAIN prios |-> "waiting"]
    /\ finished' = << >>
    /\ hedge_ret' = [NotCalled EXCEPT !.at = "running"]

HedgeAcquireUncapped(k) ==
    /\ k \in DOMAIN hedges
    /\ hedge_pc[hedges[k]] = "waiting"
    /\ hedge_pc' = [hedge_pc EXCEPT ![hedges[k]] = "sleeping"]
    /\ UNCHANGED <<hedges, finished, hedge_ret>>

\* execute_hedge enters async with semaphore; waiters are served in the order
\* gather started them
HedgeAcquire(k) ==
    /\ k \in DOMAIN hedges
    /\ hedge_pc[hedges[k]] = "waiting"
    /\ \A j \in 1..(k - 1) : hedge_pc[hedges[j]] # "waiting"
    /\ Cardinality(HoldingSemaphore) < hedge_max_concurrent
    /\ hedge_pc' = [hedge_pc EXCEPT ![hedges[k]] = "sleeping"]
    /\ UNCHANGED <<hedges, finished, hedge_ret>>

\* line 53 returns; the request is issued
HedgeSend(h) ==
    /\ h \in DOMAIN hedge_pc
    /\ hedge_pc[h] = "sleeping"
    /\ hedge_pc' = [hedge_pc EXCEPT ![h] = "inflight"]
    /\ UNCHANGED <<hedges, finished, hedge_ret>>

\* lines 66-90: the request returns a response or raises
HedgeRespond(h, ok) ==
    /\ h \in DOMAIN hedge_pc
    /\ hedge_pc[h] = "inflight"
    /\ hedge_pc' = [hedge_pc EXCEPT ![h] = IF ok THEN "success" ELSE "failed"]
    /\ finished' = Append(finished, h)
    /\ UNCHANGED <<hedges, hedge_ret>>

FirstInList(seq, S) == seq[CHOOSE k \in DOMAIN seq :
                             seq[k] \in S /\ \A j \in 1..(k - 1) : seq[j] \notin S]

Succeeded == {h \in DOMAIN hedge_pc : hedge_pc[h] = "success"}

\* lines 94-106: gather has every candidate's result
HedgeReturn ==
    /\ hedge_ret.at = "running"
    /\ \A h \in DOMAIN hedge_pc : hedge_pc[h] \in {"success", "failed"}
    /\ hedge_ret' = IF Succeeded # {}
                    THEN [at |-> "returned", success |-> TRUE,
                          hedge |-> FirstInList(hedges, Succeeded)]
                    ELSE [at |-> "returned", success |-> FALSE, hedge |-> 0]
    /\ UNCHANGED <<hedges, hedge_pc, finished>>

HedgeInit ==
    /\ hedges = << >>
    /\ hedge_pc = << >>
    /\ finished = << >>
    /\ hedge_ret = NotCalled

HedgeNext ==
    \/ \E prios \in HedgeLists :
          HedgeCall(prios) /\ UNCHANGED <<cacheVars, netVars, pipeVars, cascVars, budgetVars, retryVars, ioVars, guardVars, staleVars, patternVars, lruVars>>
    \/ \E k \in 1..NumHedges :
          HedgeAcquire(k) /\ UNCHANGED <<cacheVars, netVars, pipeVars, cascVars, budgetVars, retryVars, ioVars, guardVars, staleVars, patternVars, lruVars>>
    \/ \E h \in 1..NumHedges :
          HedgeSend(h) /\ UNCHANGED <<cacheVars, netVars, pipeVars, cascVars, budgetVars, retryVars, ioVars, guardVars, staleVars, patternVars, lruVars>>
    \/ \E h \in 1..NumHedges, ok \in BOOLEAN :
          HedgeRespond(h, ok) /\ UNCHANGED <<cacheVars, netVars, pipeVars, cascVars, budgetVars, retryVars, ioVars, guardVars, staleVars, patternVars, lruVars>>
    \/ HedgeReturn /\ UNCHANGED <<cacheVars, netVars, pipeVars, cascVars, budgetVars, retryVars, ioVars, guardVars, staleVars, patternVars, lruVars>>

(***************************************************************************)
(* The concurrency caps: a pipeline handling one query, next to            *)
(* hedge_requests calls.                                                   *)
(***************************************************************************)
max_concurrent_searches == 3
max_concurrent_embeddings == 5
max_concurrent_reranks == 2
max_concurrent_judges == 2

\* the max_concurrent each worker's semaphore is built with
MaxConcurrent(i) ==
    CASE i = 1 -> max_concurrent_searches [] i = 2 -> max_concurrent_embeddings
      [] i = 3 -> max_concurrent_reranks [] i = 4 -> max_concurrent_judges

\* the tasks stage i has inside async with self.semaphore
Processing(i) == IF loop_pc[i] \in {"process", "put"} THEN 1 ELSE 0

\* a pipeline that is started and left running; with one query no put finds
\* its queue full
OneQueryNext ==
    \/ \E loaded \in BOOLEAN : Start(loaded) /\ UNCHANGED <<cacheVars, netVars, cascVars, budgetVars, hedgeVars, retryVars, ioVars, guardVars, staleVars, patternVars, lruVars>>
    \/ Submit(1, "SearchTask") /\ UNCHANGED <<cacheVars, netVars, cascVars, budgetVars, hedgeVars, retryVars, ioVars, guardVars, staleVars, patternVars, lruVars>>
    \/ \E i \in Stages : StageGet(i) /\ UNCHANGED <<cacheVars, netVars, cascVars, budgetVars, hedgeVars, retryVars, ioVars, guardVars, staleVars, patternVars, lruVars>>
    \/ \E i \in Stages, ok \in BOOLEAN :
          StageProcess(i, ok) /\ UNCHANGED <<cacheVars, netVars, cascVars, budgetVars, hedgeVars, retryVars, ioVars, guardVars, staleVars, patternVars, lruVars>>

CapNext == OneQueryNext \/ HedgeNext

(***************************************************************************)
(* AdaptiveOrchestrator.should_retry_with_higher_tier.  Qualities and      *)
(* thresholds are in hundredths, times in milliseconds.                    *)
(***************************************************************************)
basic_quality_threshold == 60
enhanced_quality_threshold == 80
premium_quality_threshold == 90

\* config_used as get_adaptive_config and get_retry_config build it: the tier
\* with its quality threshold, and the time budget of a budget tier
ConfigsUsed ==
    {[tier |-> "basic", quality_threshold |-> basic_quality_threshold],
     [tier |-> "enhanced", quality_threshold |-> enhanced_quality_threshold],
     [tier |-> "premium", quality_threshold |-> premium_quality_threshold]}
    \X {fast_time_budget, balanced_time_budget, thorough_time_budget}

RetryQualities == {47, 48, 59, 60, 63, 64, 65, 80, 90}

RetryTimes == {0, 1599, 1600, 3999, 4000, 7999, 8000}

\* thresholds whose product with 0.8 the floating-point multiplication rounds
\* up: 0.8 * 0.8 is 0.6400000000000001 and 0.9 * 0.8 is 0.7200000000000001,
\* while 0.6 * 0.8 is 0.48
RoundedUp == {enhanced_quality_threshold, premium_quality_threshold}

\* quality < config_used["quality_threshold"] * 0.8, as the floats compare
BelowEightyPercent(quality, threshold) ==
    IF threshold \in RoundedUp
    THEN 5 * quality <= 4 * threshold
    ELSE 5 * quality < 4 * threshold

ShouldRetryTimeStrict(enabled, quality, time_ms, config_used) ==
    IF ~enabled THEN FALSE
    ELSE IF config_used[1].tier = "premium" THEN FALSE
    ELSE IF quality >= config_used[1].quality_threshold THEN FALSE
    ELSE IF 10 * time_ms > 8 * config_used[2] THEN FALSE
    ELSE BelowEightyPercent(quality, config_used[1].quality_threshold)

\* AdaptiveOrchestrator.should_retry_with_higher_tier; the time budgets times
\* 0.8 are exact
should_retry_with_higher_tier(enabled, quality, time_ms, config_used) ==
    IF ~enabled THEN FALSE
    ELSE IF config_used[1].tier = "premium" THEN FALSE
    ELSE IF quality >= config_used[1].quality_threshold THEN FALSE
    ELSE IF 10 * time_ms >= 8 * config_used[2] THEN FALSE
    ELSE BelowEightyPercent(quality, config_used[1].quality_threshold)

ShouldRetry(quality, time_ms, config_used) ==
    /\ last_retry' = [called |-> TRUE, enabled |-> adaptation_enabled,
                      quality |-> quality, time_ms |-> time_ms,
                      tier |-> config_used[1].tier,
                      quality_threshold |-> config_used[1].quality_threshold,
                      time_budget_ms |-> config_used[2],
                      answer |-> should_retry_with_higher_tier(
                                     adaptation_enabled, quality, time_ms, config_used)]
    /\ UNCHANGED adaptation_enabled

\* AdaptiveOrchestrator.disable_adaptation
DisableAdaptation ==
    /\ adaptation_enabled' = FALSE
    /\ UNCHANGED last_retry

\* AdaptiveOrchestrator.enable_adaptation
EnableAdaptation ==
    /\ adaptation_enabled' = TRUE
    /\ UNCHANGED last_retry

(***************************************************************************)
(* TierManager and AdaptiveOrchestrator.  A query is the number of its      *)
(* tokens and the number of the five indicator patterns it matches.         *)
(***************************************************************************)
RetrievalTiers == <<"basic", "enhanced", "premium">>

TierRank(tier) == CHOOSE i \in 1..3 : RetrievalTiers[i] = tier

\* TierManager._assess_query_complexity compared with a bound in tenths:
\* min(1.0, matches / 5) > bound / 10
ComplexityAbove(query, bound) == 10 * query.matches > 5 * bound

\* context.get("time_budget_ms", 0)
TimeBudgetOf(context) == IF context.has_time THEN context.time_budget_ms ELSE 0

\* TierManager.select_tier, lines 60-82: the selected tier
select_tier(query, context) ==
    LET by_content ==
            IF ComplexityAbove(query, 7) \/ query.length > 5 THEN "premium"
            ELSE IF ComplexityAbove(query, 4) \/ query.length > 3 THEN "enhanced"
            ELSE "basic"
        by_preference ==
            IF context.user_preference = "thorough" THEN "premium"
            ELSE IF context.user_preference = "fast" THEN "basic"
            ELSE by_content
    IN IF TimeBudgetOf(context) < 2000 THEN "basic"
       ELSE IF TimeBudgetOf(context) > 8000 THEN "premium"
       ELSE by_preference

\* TierManager.get_tier_config
get_tier_config(tier) ==
    CASE tier = "basic" ->
            [max_results |-> 20, quality_threshold |-> basic_quality_threshold,
             enable_hedging |-> FALSE, enable_caching |-> FALSE,
             enable_filtering |-> FALSE, enable_streaming |-> FALSE,
             rerank_topk |-> 10, q_max |-> 8, d_max |-> 32]
      [] tier = "enhanced" ->
            [max_results |-> 50, quality_threshold |-> enhanced_quality_threshold,
             enable_hedging |-> FALSE, enable_caching |-> TRUE,
             enable_filtering |-> TRUE, enable_streaming |-> FALSE,
             rerank_topk |-> 20, q_max |-> 16, d_max |-> 64]
      [] tier = "premium" ->
            [max_results |-> 100, quality_threshold |-> premium_quality_threshold,
             enable_hedging |-> TRUE, enable_caching |-> TRUE,
             enable_filtering |-> TRUE, enable_streaming |-> TRUE,
             rerank_topk |-> 50, q_max |-> 32, d_max |-> 128]

\* BudgetManager.get_adaptive_config with its _get_* helpers; the quality
\* target is min_quality_threshold 0.7 plus 0, 0.1 or 0.2
BudgetConfigOf(tier) ==
    [tier |-> tier, time_budget_ms |-> get_time_budget(tier),
     quality_target |-> 60 + 10 * Rank(tier),
     max_results |-> (CASE tier = "fast" -> 20 [] tier = "balanced" -> 50
                        [] tier = "thorough" -> 100),
     enable_hedging |-> tier # "fast", enable_caching |-> TRUE,
     enable_filtering |-> tier # "fast",
     rerank_topk |-> (CASE tier = "fast" -> 10 [] tier = "balanced" -> 20
                        [] tier = "thorough" -> 50),
     q_max |-> (CASE tier = "fast" -> 8 [] tier = "balanced" -> 16
                  [] tier = "thorough" -> 32),
     d_max |-> (CASE tier = "fast" -> 32 [] tier = "balanced" -> 64
                  [] tier = "thorough" -> 128)]

\* AdaptiveOrchestrator.get_adaptive_config, lines 36-49
Combined(tier, budget_tier) ==
    LET tier_config == get_tier_config(tier)
        budget_config == BudgetConfigOf(budget_tier)
    IN [returned |-> TRUE, tier |-> tier, budget_tier |-> budget_config.tier,
        time_budget_ms |-> budget_config.time_budget_ms,
        quality_target |-> budget_config.quality_target,
        max_results |-> Smaller(tier_config.max_results, budget_config.max_results),
        enable_hedging |-> tier_config.enable_hedging /\ budget_config.enable_hedging,
        enable_caching |-> tier_config.enable_caching /\ budget_config.enable_caching,
        enable_filtering |->
            tier_config.enable_filtering /\ budget_config.enable_filtering,
        enable_streaming |-> tier_config.enable_streaming,
        rerank_topk |-> Smaller(tier_config.rerank_topk, budget_config.rerank_topk),
        q_max |-> budget_config.q_max, d_max |-> budget_config.d_max,
        quality_threshold |-> tier_config.quality_threshold]

\* select_tier and the combination, for the budget tier given
SelectAndCombine(query, context, budget_tier) ==
    /\ retrieval_tier' = select_tier(query, context)
    /\ last_select' = [called |-> TRUE, old_tier |-> retrieval_tier,
                       query |-> query, context |-> context]
    /\ last_config' = Combined(retrieval_tier', budget_tier)

\* AdaptiveOrchestrator.get_adaptive_config
GetAdaptiveConfig(query, context) ==
    /\ SelectAndCombine(query, context, current_tier)
    /\ UNCHANGED <<current_tier, last_adapt, since_fast, budget_history, budget_clock>>

\* AdaptiveOrchestrator.adapt_after_search with the config returned last as
\* config_used: it is the context of the selection, and carries a
\* time_budget_ms and no user_preference
AdaptAfterSearch(query, quality, time_ms) ==
    /\ adaptation_enabled
    /\ last_config.returned
    /\ AdaptTier(quality, time_ms)
    /\ SelectAndCombine(query,
                        [user_preference |-> "none", has_time |-> TRUE,
                         time_budget_ms |-> last_config.time_budget_ms],
                        current_tier')

\* queries of one to six tokens matching none to four of the patterns
TierQueries ==
    {[length |-> 1, matches |-> 0], [length |-> 3, matches |-> 0],
     [length |-> 4, matches |-> 0], [length |-> 5, matches |-> 0],
     [length |-> 6, matches |-> 0], [length |-> 3, matches |-> 3],
     [length |-> 4, matches |-> 4], [length |-> 5, matches |-> 2]}

Contexts ==
    {[user_preference |-> pref, has_time |-> FALSE, time_budget_ms |-> 0] :
        pref \in {"none", "fast", "thorough"}}
    \cup [user_preference : {"none", "fast", "thorough"}, has_time : {TRUE},
          time_budget_ms : {1999, 2000, 8000, 8001}]

TierNext ==
    \/ \E query \in TierQueries, context \in Contexts :
          GetAdaptiveConfig(query, context) /\ UNCHANGED <<cacheVars, netVars, pipeVars, cascVars, hedgeVars, retryVars, ioVars, guardVars, staleVars, patternVars, lruVars>>
    \/ \E query \in TierQueries, quality \in {50, 95}, time_ms \in {0, 9001} :
          Len(budget_history) < MaxHistory /\ AdaptAfterSearch(query, quality, time_ms) /\ UNCHANGED <<cacheVars, netVars, pipeVars, cascVars, hedgeVars, retryVars, ioVars, guardVars, staleVars, patternVars, lruVars>>

RetryInit ==
    /\ adaptation_enabled = TRUE
    /\ last_retry = [called |-> FALSE, enabled |-> TRUE, quality |-> 0, time_ms |-> 0,
                     tier |-> "basic", quality_threshold |-> 0, time_budget_ms |-> 0,
                     answer |-> FALSE]

RetryNext ==
    \/ \E quality \in RetryQualities, time_ms \in RetryTimes, c \in ConfigsUsed :
          ShouldRetry(quality, time_ms, c)
          /\ UNCHANGED <<cacheVars, netVars, pipeVars, cascVars, budgetVars, hedgeVars, ioVars, guardVars, staleVars, patternVars, lruVars>>
    \/ DisableAdaptation
          /\ UNCHANGED <<cacheVars, netVars, pipeVars, cascVars, budgetVars, hedgeVars, ioVars, guardVars, staleVars, patternVars, lruVars>>
    \/ EnableAdaptation
          /\ UNCHANGED <<cacheVars, netVars, pipeVars, cascVars, budgetVars, hedgeVars, ioVars, guardVars, staleVars, patternVars, lruVars>>

(***************************************************************************)
(* GuardrailManager's circuit breaker (guardrails/guardrails.py).  Times   *)
(* are in seconds; one tick of the clock is one second.                    *)
(***************************************************************************)
guard_threshold == 3
guard_timeout == 1
MaxGuardFailures == 5

\* GuardrailManager.check_circuit_breaker
CheckCircuitBreaker ==
    /\ IF circuit_breaker_state = "OPEN" /\ now > circuit_breaker_reset_time
       THEN /\ circuit_breaker_state' = "HALF_OPEN"
            /\ circuit_breaker_failures' = 0
       ELSE UNCHANGED <<circuit_breaker_state, circuit_breaker_failures>>
    /\ UNCHANGED <<circuit_breaker_reset_time, in_a_row, limiterVars>>

\* GuardrailManager.record_success
GuardRecordSuccess ==
    /\ IF circuit_breaker_state = "HALF_OPEN"
       THEN /\ circuit_breaker_state' = "CLOSED"
            /\ circuit_breaker_failures' = 0
       ELSE UNCHANGED <<circuit_breaker_state, circuit_breaker_failures>>
    /\ in_a_row' = 0
    /\ UNCHANGED <<circuit_breaker_reset_time, limiterVars>>

\* GuardrailManager.record_failure
GuardRecordFailure ==
    /\ circuit_breaker_failures < MaxGuardFailures
    /\ circuit_breaker_failures' = circuit_breaker_failures + 1
    /\ IF circuit_breaker_failures + 1 >= guard_threshold
       THEN /\ circuit_breaker_state' = "OPEN"
            /\ circuit_breaker_reset_time' = now + guard_timeout
       ELSE UNCHANGED <<circuit_breaker_state, circuit_breaker_reset_time>>
    /\ in_a_row' = IF in_a_row < MaxGuardFailures THEN in_a_row + 1 ELSE in_a_row
    /\ UNCHANGED limiterVars

\* GuardrailConfig.max_requests_per_minute
max_requests_per_minute == guard_threshold + 2

Clients == {"default", "other"}

\* GuardrailManager.check_rate_limit: the counts it leaves and its answer.  A
\* key is the pair of the client id and the minute number; client ids hold no
\* colon, so a key starts with "<client_id>:" iff it is that client's
check_rate_limit(counts, client_id, minute) ==
    LET minute_key == <<client_id, minute>>
        old_keys == {k \in DOMAIN counts : k[1] # client_id \/ k[2] < minute - 1}
        cleaned == [k \in DOMAIN counts \ old_keys |-> counts[k]]
        current_count == IF minute_key \in DOMAIN cleaned THEN cleaned[minute_key]
                         ELSE 0
    IN IF current_count >= max_requests_per_minute
       THEN [counts |-> cleaned, ok |-> FALSE]
       ELSE [counts |-> [k \in DOMAIN cleaned \cup {minute_key} |->
                           IF k = minute_key THEN current_count + 1 ELSE cleaned[k]],
             ok |-> TRUE]

\* what a check_rate_limit call does to the limiter's state
Limited(client_id) ==
    LET answer == check_rate_limit(request_counts, client_id, rate_minute)
    IN /\ request_counts' = answer.counts
       /\ admitted' = IF answer.ok THEN [admitted EXCEPT ![client_id] = @ + 1]
                      ELSE admitted
       /\ UNCHANGED rate_minute

CheckRateLimit(client_id) ==
    /\ admitted[client_id] <= max_requests_per_minute
    /\ Limited(client_id)
    /\ UNCHANGED <<circuit_breaker_state, circuit_breaker_failures,
                   circuit_breaker_reset_time, in_a_row, last_run, only_warn>>

\* the clock passes into the next minute
NextMinute ==
    /\ rate_minute < MaxMinutes
    /\ rate_minute' = rate_minute + 1
    /\ admitted' = [c \in Clients |-> 0]
    /\ UNCHANGED <<circuit_breaker_state, circuit_breaker_failures,
                   circuit_breaker_reset_time, in_a_row, request_counts, last_run,
                   only_warn>>

\* GuardrailManager.handle_violations for violations of these levels: True
\* when the operation should continue
handle_violations(levels) == "block" \notin levels

NoRun == [called |-> FALSE, input |-> {}, output |-> {}, outcome |-> "none"]

\* SearchOrchestrator.run_evaluation with guardrails on, lines 329-341 and
\* 457-469: validate_input found violations of the levels input, and
\* validate_output, if the run gets there, of the levels output
RunEvaluation(input, output) ==
    LET rate == check_rate_limit(request_counts, "default", rate_minute)
        open == circuit_breaker_state = "OPEN"
        reset == open /\ now > circuit_breaker_reset_time
        checked_state == IF reset THEN "HALF_OPEN" ELSE circuit_breaker_state
        checked_failures == IF reset THEN 0 ELSE circuit_breaker_failures
        outcome == IF ~handle_violations(input) THEN "input_validation_failed"
                   ELSE IF ~rate.ok THEN "rate_limit_exceeded"
                   ELSE IF open /\ ~reset THEN "circuit_breaker_open"
                   ELSE "done"
    IN /\ outcome = "done" /\ output # {} => circuit_breaker_failures < MaxGuardFailures
       /\ last_run' = [called |-> TRUE, input |-> input, output |-> output,
                       outcome |-> outcome]
       /\ only_warn' = (only_warn /\ "block" \notin input)
       /\ IF outcome = "input_validation_failed"
          THEN UNCHANGED <<request_counts, rate_minute, admitted>>
          ELSE Limited("default")
       /\ IF outcome = "done" /\ output # {}
          THEN \* record_failure
               /\ circuit_breaker_failures' = checked_failures + 1
               /\ IF checked_failures + 1 >= guard_threshold
                  THEN /\ circuit_breaker_state' = "OPEN"
                       /\ circuit_breaker_reset_time' = now + guard_timeout
                  ELSE /\ circuit_breaker_state' = checked_state
                       /\ UNCHANGED circuit_breaker_reset_time
               /\ in_a_row' = IF in_a_row < MaxGuardFailures THEN in_a_row + 1
                              ELSE in_a_row
          ELSE IF outcome = "done"
          THEN \* record_success
               /\ circuit_breaker_state' =
                     IF checked_state = "HALF_OPEN" THEN "CLOSED" ELSE checked_state
               /\ circuit_breaker_failures' =
                     IF checked_state = "HALF_OPEN" THEN 0 ELSE checked_failures
               /\ in_a_row' = 0
               /\ UNCHANGED circuit_breaker_reset_time
          ELSE UNCHANGED <<circuit_breaker_state, circuit_breaker_failures,
                           circuit_breaker_reset_time, in_a_row>>

GuardInit ==
    /\ circuit_breaker_state = "CLOSED"
    /\ circuit_breaker_failures = 0
    /\ circuit_breaker_reset_time = 0
    /\ in_a_row = 0
    /\ request_counts = << >>
    /\ rate_minute = 0
    /\ admitted = [c \in Clients |-> 0]
    /\ last_run = NoRun
    /\ only_warn = TRUE

RateNext ==
    \/ \E client_id \in Clients :
          CheckRateLimit(client_id)
          /\ UNCHANGED <<cacheVars, netVars, pipeVars, cascVars, budgetVars, hedgeVars,
                         retryVars, ioVars, staleVars, patternVars, lruVars>>
    \/ NextMinute
          /\ UNCHANGED <<cacheVars, netVars, pipeVars, cascVars, budgetVars, hedgeVars,
                         retryVars, ioVars, staleVars, patternVars, lruVars>>

\* validate_input finds WARN and BLOCK violations, validate_output WARN ones
EvalNext ==
    \/ \E input \in SUBSET {"warn", "block"}, output \in SUBSET {"warn"} :
          RunEvaluation(input, output)
          /\ UNCHANGED <<cacheVars, netVars, pipeVars, cascVars, budgetVars, hedgeVars,
                         retryVars, ioVars, staleVars, patternVars, lruVars>>
    \/ Tick /\ UNCHANGED <<netVars, pipeVars, cascVars, budgetVars, hedgeVars, retryVars,
                          ioVars, guardVars, staleVars, patternVars, lruVars>>

GuardNext ==
    \/ CheckCircuitBreaker
          /\ UNCHANGED <<cacheVars, netVars, pipeVars, cascVars, budgetVars, hedgeVars,
                         retryVars, ioVars, staleVars, patternVars, lruVars>>
    \/ GuardRecordSuccess
          /\ UNCHANGED <<cacheVars, netVars, pipeVars, cascVars, budgetVars, hedgeVars,
                         retryVars, ioVars, staleVars, patternVars, lruVars>>
    \/ GuardRecordFailure
          /\ UNCHANGED <<cacheVars, netVars, pipeVars, cascVars, budgetVars, hedgeVars,
                         retryVars, ioVars, staleVars, patternVars, lruVars>>
    \/ Tick /\ UNCHANGED <<netVars, pipeVars, cascVars, budgetVars, hedgeVars, retryVars,
                          ioVars, guardVars, staleVars, patternVars, lruVars>>

Init ==
    /\ CacheInit /\ NetInit /\ PipeInit /\ CascInit /\ BudgetInit /\ HedgeInit
    /\ RetryInit /\ IoInit /\ GuardInit /\ StaleInit
    /\ PatternInit /\ LruInit

\* The retry decision under any inputs
RetrySpec == Init /\ [][RetryNext]_vars

\* The cache manager over a disk tier whose storage steps can fail
IoSpec == Init /\ [][IoNext]_vars

\* The guardrail manager's rate limiter under calls of two clients
RateSpec == Init /\ [][RateNext]_vars

\* Evaluations behind the guardrails, within one minute
EvalSpec == Init /\ [][EvalNext]_vars

\* The guardrail manager's breaker under any sequence of its three calls
GuardSpec == Init /\ [][GuardNext]_vars

\* The cache manager with the latest put of each key remembered
StaleSpec == Init /\ [][StaleNext]_vars

\* The cache manager with invalidate_pattern
PatternSpec == Init /\ [][PatternNext]_vars

\* One LRUCache under any sequence of its calls
LruSpec == Init /\ [][LruNext]_vars

\* A pipeline handling one query next to hedge_requests calls
CapSpec == Init /\ [][CapNext]_vars

\* One hedge_requests call after another
HedgeSpec == Init /\ [][HedgeNext]_vars

\* The pipeline with a caller of get_result
PollSpec == Init /\ [][PollNext]_vars

\* The cascade under any registration of judges and any judge behaviour
CascSpec == Init /\ [][CascNext]_vars

TrackSpec == Init /\ [][TrackNext]_vars

\* The cascade's thresholds under adapt_thresholds calls on any history
AdaptSpec == Init /\ [][AdaptNext]_vars

\* The orchestrator's two tier controllers under any sequence of its calls
TierSpec == Init /\ [][TierNext]_vars

\* The budget controller's history under calls any time apart
HistorySpec == Init /\ [][HistoryNext]_vars

\* The budget controller under any sequence of observations
BudgetSpec == Init /\ [][BudgetNext]_vars

\* The pipeline with its submitters and its four stage loops
PipeSpec == Init /\ [][PipeNext]_vars

\* The cache under any sequence of puts, gets and invalidations
CacheSpec == Init /\ [][CacheNext]_vars

\* Concurrent hedged requests on one HedgedSession and its breaker
NetSpec == Init /\ [][NetNext]_vars

(***************************************************************************)
(* Claims about the cache                                                  *)
(***************************************************************************)
\* bytes of the payload files the disk tier holds
RECURSIVE SumLen(_, _)
SumLen(files, keys) ==
    IF keys = {} THEN 0
    ELSE LET k == CHOOSE x \in keys : TRUE
         IN files[k].len + SumLen(files, keys \ {k})

DiskBytes == SumLen(disk_files, DOMAIN disk_files)

RECURSIVE SumSizes(_)
SumSizes(entries) ==
    IF entries = << >> THEN 0 ELSE Head(entries).size + SumSizes(Tail(entries))

\* C1: a get of a key issued more than ttl after the latest put of that key
\* reports absent, whatever gets, puts of other keys, evictions and promotions
\* happened in between.
C1_ExpiredEntryAbsent ==
    (cache_op.op = "get" /\ put_deadline[cache_op.key] # None
        /\ cache_op.at > put_deadline[cache_op.key])
    => cache_ret = None

\* C5: a get issued right after a put of the same key, before the ttl has
\* elapsed, returns the value that was put.
C5_GetAfterPut ==
    (cache_op.op = "get" /\ cache_op.value # None
        /\ cache_op.at < put_deadline[cache_op.key])
    => cache_ret = cache_op.value

C5_Witness ==
    /\ cache_op.op = "get"
    /\ cache_op.value = max_size_bytes + 1
    /\ cache_ret = cache_op.value
    /\ cache_op.at > 0

\* C6: the memory tier never holds more than maxsize entries.
C6_MemoryBounded == Len(mem_cache) <= memory_size

\* a disk hit was promoted into a full memory tier
C6_Witness ==
    /\ cache_op.op = "get"
    /\ cache_ret # None
    /\ Len(mem_cache) = memory_size
    /\ mem_cache[Len(mem_cache)].expires_at = None
    /\ Len(disk_entries) > memory_size

\* C7: the bytes stored in the disk tier never exceed max_size_bytes, and no
\* stored payload is larger than the capacity.
C7_DiskBounded ==
    /\ DiskBytes <= max_size_bytes
    /\ SumSizes(disk_entries) <= max_size_bytes
    /\ \A k \in DOMAIN disk_files : disk_files[k].len <= max_size_bytes

\* a put filled the disk tier after the other key's entry was evicted for it
C7_Witness ==
    /\ cache_op.op = "put"
    /\ cache_op.value = max_size_bytes
    /\ DiskBytes = max_size_bytes
    /\ \E k \in CacheKeys \ {cache_op.key} :
          /\ put_deadline[k] # None
          /\ k \notin DOMAIN disk_files
          /\ HasKey(mem_cache, k) = FALSE

(***************************************************************************)
(* Claims about the network layer                                          *)
(***************************************************************************)
\* C2: after threshold consecutive failures (failure_count counts the failures
\* since the last success) the breaker is OPEN until timeout_ms has elapsed
\* since the last failure, and a request started in that time is rejected
\* without a network attempt.
C2_OpenRejects ==
    /\ [](breaker.failure_count >= circuit_breaker_threshold
            /\ now - breaker.last_failure_time <= circuit_breaker_timeout_ms
          => breaker.state = "OPEN")
    /\ [][\A r \in Requests :
            (/\ req_pc[r] = "idle"
             /\ req_pc'[r] # "idle"
             /\ breaker.failure_count >= circuit_breaker_threshold
             /\ now - breaker.last_failure_time < circuit_breaker_timeout_ms)
            => (/\ req_pc'[r] = "rejected"
                /\ req_sent'[r] = 0
                /\ breaker'.state = "OPEN")]_vars

\* a request was rejected right after the threshold-th failure in a row
C2_Witness ==
    \E r \in Requests :
        /\ req_pc[r] = "rejected"
        /\ req_sent[r] = 0
        /\ breaker.failure_count = circuit_breaker_threshold
        /\ breaker.state = "OPEN"
        /\ now = breaker.last_failure_time

(***************************************************************************)
(* Claims about the pipeline                                               *)
(***************************************************************************)
\* C3: a put on a queue that already holds maxsize items returns without
\* waiting, enqueues nothing and is counted in total_dropped: no submission and
\* no stage is ever waiting in a put, and every put that found its queue full
\* is counted as dropped.
C3_FullQueueDrops ==
    /\ \A q \in Queries : sub_pc[q].at # "blocked"
    /\ \A i \in Stages : loop_pc[i] # "put"
    /\ \A i \in Stages : total_dropped[i] = full_puts[i]

\* nothing is queued, held by a stage or waiting to be queued
Quiescent ==
    /\ \A i \in Stages : queue[i] = << >> /\ loop_pc[i] = "get"
    /\ \A q \in Queries : sub_pc[q].at # "blocked"

SubmittedQueries == {q \in Queries : sub_pc[q].at # "new"}

\* C4: with the pipeline started and not stopped, every external call
\* succeeding and no more queries submitted than a queue holds, once the stages
\* have nothing left to do each query submitted through submit_query has its own
\* completed result in get_result.
C4_AllQueriesComplete ==
    (/\ is_running
     /\ undisturbed
     /\ Quiescent
     /\ Cardinality(SubmittedQueries) <= queue_size)
    => \A q \in Queries :
          sub_pc[q] = [at |-> "returned", kind |-> "dict"]
          => get_result(q).query_id = q

(***************************************************************************)
(* Claims about the judge cascade                                          *)
(***************************************************************************)
\* the outcome of the judge's last invocation in the call
LastOutcomeOf(ev, name) ==
    ev.outcomes[CHOOSE i \in 1..Len(ev.invoked) :
                   /\ ev.invoked[i] = name
                   /\ \A j \in (i + 1)..Len(ev.invoked) : ev.invoked[j] # name]

C9_HighConfidenceHeuristic ==
    (/\ last_eval.status # "none"
     /\ casc_config.enable_heuristic_first
     /\ InSeq("heuristic", last_eval.judges))
    => /\ last_eval.invoked[1] = "heuristic"
       /\ (/\ last_eval.outcomes[1].ok
           /\ last_eval.outcomes[1].confidence >= high_confidence_threshold)
          => /\ last_eval.result = last_eval.outcomes[1]
             /\ last_eval.result.call = <<"heuristic", 1>>
             /\ last_eval.invoked = <<"heuristic">>

\* with routing on and an LLM judge registered, a heuristic result at exactly
\* the threshold and below the quality floor was returned
C9_Witness ==
    /\ last_eval.status = "returned"
    /\ casc_config.enable_heuristic_first
    /\ casc_config.enable_confidence_based_routing
    /\ casc_config.enable_llm_fallback
    /\ InSeq("llm", last_eval.judges)
    /\ last_eval.invoked = <<"heuristic">>
    /\ last_eval.result.confidence = high_confidence_threshold
    /\ last_eval.result.relevance_score < min_quality_for_heuristic

(***************************************************************************)
(* Claims about the budget controller                                      *)
(***************************************************************************)
\* C10: one adapt_tier call moves current_tier by at most one position in
\* fast < balanced < thorough, and after the tier was fast, thorough is reached
\* by the second call at the earliest.
C10_OneStepPerCall ==
    /\ last_adapt.called =>
          /\ Rank(current_tier) - Rank(last_adapt.old_tier) <= 1
          /\ Rank(last_adapt.old_tier) - Rank(current_tier) <= 1
    /\ current_tier = "thorough" => since_fast >= 2

\* two strong observations in a row took the tier from fast to thorough
C10_Witness ==
    /\ last_adapt.called
    /\ last_adapt.old_tier = "balanced"
    /\ current_tier = "thorough"
    /\ since_fast = 2
    /\ last_adapt.quality >= upgrade_quality_threshold

\* stage i has a task of query q in its queue
InQueue(i, q) == \E j \in 1..Len(queue[i]) : queue[i][j].query_id = q

\* stage i has a task of query q, in its queue or taken by its loop
InStage(i, q) == loop_task[i].query_id = q \/ InQueue(i, q)

StageOf(q) ==
    IF \E i \in Stages : InStage(i, q)
    THEN CHOOSE i \in Stages : InStage(i, q) ELSE 0

\* the tasks of query q are at most one
OneHolder(q) ==
    \A i \in Stages :
        /\ \A k \in Stages \ {i} : ~(InStage(i, q) /\ InStage(k, q))
        /\ ~(loop_task[i].query_id = q /\ InQueue(i, q))
        /\ \A j \in 1..Len(queue[i]), l \in 1..Len(queue[i]) :
              (queue[i][j].query_id = q /\ queue[i][l].query_id = q) => j = l

\* C11: a query's tasks exist in the order search, embedding, rerank, judge: at
\* no time do two holders (queue slots or stage loops) have a task of the same
\* query, a queue holds only its own stage's tasks, a query enters the pipeline
\* at the search queue, and a task appears in the next stage's queue only in a
\* step in which the preceding stage's loop, holding that query, lets go of it.
C11_StageOrder ==
    /\ [](\A q \in Queries : OneHolder(q))
    /\ [](\A i \in Stages : \A j \in 1..Len(queue[i]) :
            queue[i][j].kind = Expected(i) \/ (i = 1 /\ queue[i][j].kind = "dict"))
    /\ [][\A q \in Queries :
            /\ (StageOf(q) = 0 /\ StageOf(q)' # 0) =>
                  (StageOf(q)' = 1 /\ sub_pc[q].at \in {"new", "blocked"})
            /\ (StageOf(q) # 0 /\ StageOf(q)' # 0) =>
                  StageOf(q)' \in {StageOf(q), StageOf(q) + 1}
            /\ (StageOf(q) # 0 /\ StageOf(q)' = StageOf(q) + 1) =>
                  /\ loop_task[StageOf(q)].query_id = q
                  /\ loop_pc[StageOf(q)] \in {"process", "put"}
                  /\ loop_task'[StageOf(q)].query_id # q]_vars

\* a query has gone through search, embedding and rerank and its judge task is
\* queued while another query is still at an earlier stage
C11_Witness ==
    \E q \in Queries, r \in Queries :
        /\ Len(queue[4]) > 0
        /\ queue[4][1] = [query_id |-> q, kind |-> "JudgeTask"]
        /\ StageOf(r) \in 1..3
        /\ tasks_processed[3] > 0

(***************************************************************************)
(* Claims about get_result                                                 *)
(***************************************************************************)
\* C12: once the judge stage has stored a query's result, a get_result call for
\* it that starts or wakes up returns that result, and get_result gives up with
\* a timeout only when the judge stage has stored no result for the query.
C12_StoredResultReturned ==
    /\ [](getter.at = "returned" =>
            /\ getter.query_id \in DOMAIN judge_results
            /\ getter.result.query_id = getter.query_id)
    /\ [][(/\ getter.at \in {"idle", "polling"}
           /\ getter' # getter
           /\ getter'.query_id \in DOMAIN judge_results)
          => getter'.at = "returned"]_vars

C13_FirstSuccessInTime ==
    /\ (hedge_ret.at = "returned" /\ Succeeded # {})
          => (hedge_ret.success /\ hedge_ret.hedge = FirstInList(finished, Succeeded))
    /\ (hedge_ret.at = "running" /\ Succeeded # {})
          => finished[Len(finished)] = FirstInList(finished, Succeeded)

(***************************************************************************)
(* Claims about the cascade's acceptance rule                              *)
(***************************************************************************)
\* the call ran the heuristic judge first and got a result below the high
\* threshold
HeuristicBelowHigh ==
    /\ last_eval.status = "returned"
    /\ casc_config.enable_heuristic_first
    /\ InSeq("heuristic", last_eval.judges)
    /\ last_eval.outcomes[1].ok
    /\ last_eval.outcomes[1].confidence < high_confidence_threshold

HeuristicAccepted ==
    /\ last_eval.invoked = <<"heuristic">>
    /\ last_eval.result = last_eval.outcomes[1]

\* a declined or failed heuristic: the LLM judge, if enabled and registered, is
\* the next judge invoked and its result, if it gives one, is returned
EscalatesToLLM ==
    (casc_config.enable_llm_fallback /\ InSeq("llm", last_eval.judges))
    => /\ Len(last_eval.invoked) >= 2
       /\ last_eval.invoked[2] = "llm"
       /\ last_eval.outcomes[2].ok =>
             (last_eval.result = last_eval.outcomes[2] /\ Len(last_eval.invoked) = 2)

\* C14 as stated: a heuristic result below the high threshold is accepted
\* exactly when its confidence is above the low threshold and its relevance is
\* at least the quality floor; otherwise the cascade goes to the LLM judge and
\* returns its result unless it fails.
C14_AcceptanceRule ==
    HeuristicBelowHigh =>
        /\ HeuristicAccepted =
              (/\ last_eval.outcomes[1].confidence > low_confidence_threshold
               /\ last_eval.outcomes[1].relevance_score >= min_quality_for_heuristic)
        /\ ~HeuristicAccepted => EscalatesToLLM

\* C14 amended: the rule above holds with enable_confidence_based_routing on;
\* with it off every heuristic result is accepted.
C14_AcceptanceRuleWithRouting ==
    HeuristicBelowHigh =>
        /\ HeuristicAccepted =
              (\/ ~casc_config.enable_confidence_based_routing
               \/ /\ last_eval.outcomes[1].confidence > low_confidence_threshold
                  /\ last_eval.outcomes[1].relevance_score >= min_quality_for_heuristic)
        /\ ~HeuristicAccepted => EscalatesToLLM

\* with routing on, a heuristic result exactly at the low threshold was declined
\* although its relevance is above the floor, and the LLM result was returned
C14_Witness ==
    /\ HeuristicBelowHigh
    /\ casc_config.enable_confidence_based_routing
    /\ last_eval.outcomes[1].confidence = low_confidence_threshold
    /\ last_eval.outcomes[1].relevance_score >= min_quality_for_heuristic
    /\ last_eval.invoked = <<"heuristic", "llm">>
    /\ last_eval.result = last_eval.outcomes[2]

(***************************************************************************)
(* Claims about the retry rule                                             *)
(***************************************************************************)
\* the call is in one of the cases that rule a retry out
RetryRuledOut ==
    \/ last_retry.tier = "premium"
    \/ last_retry.quality >= last_retry.quality_threshold
    \/ 10 * last_retry.time_ms >= 8 * last_retry.time_budget_ms

\* C15 as stated: should_retry_with_higher_tier answers false at the top tier,
\* or when quality >= the threshold, or when the time is >= 80% of the budget,
\* and otherwise answers true exactly when quality < 80% of the threshold.
C15_RetryRule ==
    last_retry.called =>
        last_retry.answer =
            (/\ ~RetryRuledOut
             /\ 5 * last_retry.quality < 4 * last_retry.quality_threshold)

\* C15 amended: with adaptation disabled the answer is false; with it enabled
\* the rule is as stated, 80% of the threshold being the floating-point
\* product threshold * 0.8.
C15_RetryRuleWhenEnabled ==
    last_retry.called =>
        last_retry.answer =
            (/\ last_retry.enabled
             /\ ~RetryRuledOut
             /\ BelowEightyPercent(last_retry.quality, last_retry.quality_threshold))

\* a call at exactly 80% of the time budget was refused although the quality
\* was poor
C15_Witness ==
    /\ last_retry.called
    /\ last_retry.enabled
    /\ last_retry.tier = "basic"
    /\ 10 * last_retry.time_ms = 8 * last_retry.time_budget_ms
    /\ 5 * last_retry.quality < 4 * last_retry.quality_threshold
    /\ ~last_retry.answer

\* C16: a cache get, put or invalidate in which a storage step (payload read,
\* write, unlink, metadata save) failed does not raise to the caller, and a get
\* whose payload read failed returns None.
C16_StorageFailuresContained ==
    io.failed # {} =>
        /\ ~io.raised
        /\ (cache_op.op = "get" /\ "read" \in io.failed) => cache_ret = None

(***************************************************************************)
(* Claims about the network breaker and the retries                        *)
(***************************************************************************)
\* request r issues a network attempt in this step
AttemptIssued(r) == req_pc[r] # "inflight" /\ req_pc'[r] = "inflight"

\* C18: no network attempt, first attempt or retry, is issued while the breaker
\* is OPEN and timeout_ms has not elapsed since the last failure.
C18_NoAttemptWhileOpen ==
    [][\A r \in Requests :
          AttemptIssued(r) =>
              ~(/\ breaker'.state = "OPEN"
                /\ now - breaker'.last_failure_time <= circuit_breaker_timeout_ms)]_vars

\* request r makes its is_open check in this step
Checks(r) == req_pc[r] = "idle" /\ req_pc'[r] # "idle"

\* the awaited attempt of request r ends in this step, with or without a response
Succeeds(r) == req_pc[r] = "inflight" /\ req_pc'[r] = "done"

Fails(r) == req_pc[r] = "inflight" /\ req_pc'[r] \in {"backoff", "failed"}

TimeoutElapsed == now - breaker.last_failure_time > circuit_breaker_timeout_ms

\* C19: an is_open check on an OPEN breaker makes it HALF_OPEN and admits the
\* call when more than timeout_ms has elapsed since the last recorded failure,
\* and otherwise leaves it OPEN and rejects the call; nothing else makes an
\* OPEN breaker HALF_OPEN; a success recorded in HALF_OPEN gives CLOSED with
\* failure count 0; a failure recorded in HALF_OPEN or CLOSED adds one to the
\* count and gives OPEN when the count has reached the threshold.
C19_BreakerTransitions ==
    [][/\ \A r \in Requests :
             (Checks(r) /\ breaker.state = "OPEN") =>
                 IF TimeoutElapsed
                 THEN breaker'.state = "HALF_OPEN" /\ req_pc'[r] = "inflight"
                 ELSE breaker'.state = "OPEN" /\ req_pc'[r] = "rejected"
       /\ (breaker.state = "OPEN" /\ breaker'.state = "HALF_OPEN") =>
             (TimeoutElapsed /\ \E r \in Requests : Checks(r))
       /\ \A r \in Requests :
             (Succeeds(r) /\ breaker.state = "HALF_OPEN") =>
                 breaker'.state = "CLOSED" /\ breaker'.failure_count = 0
       /\ \A r \in Requests :
             (Fails(r) /\ breaker.state \in {"HALF_OPEN", "CLOSED"}) =>
                 /\ breaker'.failure_count = breaker.failure_count + 1
                 /\ breaker'.failure_count >= circuit_breaker_threshold
                       => breaker'.state = "OPEN"]_vars

\* a call was admitted on a HALF_OPEN breaker after the timeout, and its
\* attempt is in flight
C19_Witness ==
    /\ breaker.state = "HALF_OPEN"
    /\ breaker.failure_count >= circuit_breaker_threshold
    /\ TimeoutElapsed
    /\ \E r \in Requests : req_pc[r] = "inflight" /\ req_sent[r] = 1

(***************************************************************************)
(* Claims about the guardrail breaker                                      *)
(***************************************************************************)
\* C20: the guardrail breaker goes from CLOSED to OPEN only when the last
\* threshold record_failure/record_success calls were all failures: a success
\* between failures restarts the count.
C20_OpensOnConsecutiveFailures ==
    [][(circuit_breaker_state = "CLOSED" /\ circuit_breaker_state' = "OPEN")
          => in_a_row' >= guard_threshold]_vars

\* C21 as stated: with concurrent requests on one session every failed attempt
\* adds exactly one to the shared failure count, and the state is OPEN in
\* every state whose count has reached the threshold.
C21_CountedAndOpen ==
    /\ [][\A r \in Requests :
             Fails(r) => breaker'.failure_count = breaker.failure_count + 1]_vars
    /\ [](breaker.failure_count >= circuit_breaker_threshold
             => breaker.state = "OPEN")

\* C21 with the HALF_OPEN probe state: every failed attempt adds exactly one to
\* the shared failure count, a success sets it to 0 and no other step changes
\* it; in every state whose count has reached the threshold the breaker is
\* OPEN, or HALF_OPEN with more than timeout_ms elapsed since the last failure.
C21_CountedAndOpenOrProbing ==
    /\ [][/\ \A r \in Requests :
                Fails(r) => breaker'.failure_count = breaker.failure_count + 1
          /\ \A r \in Requests : Succeeds(r) => breaker'.failure_count = 0
          /\ (\A r \in Requests : ~Fails(r) /\ ~Succeeds(r))
                => breaker'.failure_count = breaker.failure_count]_vars
    /\ [](breaker.failure_count >= circuit_breaker_threshold
             => \/ breaker.state = "OPEN"
                \/ breaker.state = "HALF_OPEN" /\ TimeoutElapsed)

\* the attempts of two concurrent requests have both failed and both were counted
C21_Witness ==
    /\ \A r \in Requests : req_pc[r] = "backoff" /\ req_sent[r] = 1
    /\ breaker.failure_count = Cardinality(Requests)
    /\ breaker.state = "OPEN"
\* C22: one call makes at most max_retries + 1 attempts; an attempt is issued
\* only at the start of the call or after a failed attempt, so a success ends
\* the call; the call fails only after max_retries + 1 attempts, all failed;
\* a failed attempt is one record_failure and a success one record_success.
C22_BoundedAttempts ==
    /\ [](\A r \in Requests :
             /\ req_sent[r] <= max_retries + 1
             /\ req_pc[r] = "failed" => req_sent[r] = max_retries + 1
             /\ req_pc[r] = "done" => req_sent[r] = req_attempt[r] + 1)
    /\ [][\A r \in Requests :
             /\ AttemptIssued(r) =>
                   /\ req_pc[r] \in {"idle", "jitter"}
                   /\ req_sent'[r] = req_attempt'[r] + 1
             /\ Fails(r) =>
                   /\ breaker' = record_failure(breaker, now)
                   /\ req_pc'[r] = "failed" <=> req_attempt[r] = max_retries
             /\ Succeeds(r) => breaker' = record_success(breaker)
             /\ req_pc[r] = "done" => req_pc'[r] \in {"done", "idle"}]_vars

\* a call has failed after its last retry, and another succeeded on a retry
C22_Witness ==
    \E r1, r2 \in Requests :
        /\ req_pc[r1] = "failed" /\ req_sent[r1] = max_retries + 1
        /\ req_pc[r2] = "done" /\ req_sent[r2] > 1
(***************************************************************************)
(* More claims about the cache                                             *)
(***************************************************************************)
\* C23: a get of a key returns the value of the latest put of that key or None,
\* never the value of an earlier put, also when the disk tier rejected or
\* failed to write the latest value and its memory copy was evicted.
C23_NoStaleValue ==
    (cache_op.op = "get" /\ latest[cache_op.key] # None /\ cache_ret # None)
        => cache_ret = latest[cache_op.key]

\* C24: the disk tier's total_size equals the sum of the sizes of the entries
\* recorded in its metadata.
C24_TotalSizeIsSum == total_size = SumSizes(disk_entries)
\* C25: after invalidate_pattern(ns) a get of a key that was put under ns, and
\* not put again since, returns None; the call removes no entry of another
\* namespace from either tier.
C25_PatternInvalidates ==
    /\ [](cache_op.op = "get" /\ cache_op.key \in invalidated
             => cache_ret = None)
    /\ [][\A ns \in Namespaces :
             (cache_op'.op = "invalidate_pattern" /\ cache_op'.key = ns
                 /\ cache_op' # cache_op)
             => \A k \in CacheKeys \ KeysUnder(ns) :
                   /\ HasKey(mem_cache, k) => HasKey(mem_cache', k)
                   /\ HasKey(disk_entries, k) => HasKey(disk_entries', k)]_vars

\* the last call was a put of a new key into a full cache
InsertExceeds ==
    /\ lru_op.op = "put"
    /\ lru_op.key \notin lru_op.before
    /\ Cardinality(lru_op.before) + 1 > lru_maxsize

\* the key held before the call whose last use is the oldest
LeastRecentlyUsed ==
    lru_op.order[CHOOSE i \in 1..Len(lru_op.order) :
                    /\ lru_op.order[i] \in lru_op.before
                    /\ \A j \in 1..(i - 1) : lru_op.order[j] \notin lru_op.before]

\* C26: an insert that makes the entry count exceed the capacity evicts exactly
\* one entry, the one whose last use (put or get hit) is the oldest, and never
\* the entry just inserted.
C26_EvictsLeastRecentlyUsed ==
    InsertExceeds =>
        /\ KeysOf(lru) = (lru_op.before \ {LeastRecentlyUsed}) \cup {lru_op.key}
        /\ Len(lru) = lru_maxsize

\* the entry evicted was not the oldest insert: a get hit had moved that one
C26_Witness ==
    /\ InsertExceeds
    /\ lru_op.moved
    /\ LeastRecentlyUsed \notin KeysOf(lru)
    /\ lru_op.key \in KeysOf(lru)

(***************************************************************************)
(* Claims about the concurrency caps                                       *)
(***************************************************************************)
\* C27: no stage has more tasks inside its semaphore than its max_concurrent,
\* and hedge_requests has at most max_concurrent candidates inside its own.
C27_WithinConcurrencyCaps ==
    /\ \A i \in Stages : Processing(i) <= MaxConcurrent(i)
    /\ Cardinality(HoldingSemaphore) <= hedge_max_concurrent

\* a stage is processing while hedge_requests has filled its semaphore and a
\* further candidate waits for it
C27_Witness ==
    /\ \E i \in Stages : Processing(i) = 1
    /\ Cardinality(HoldingSemaphore) = hedge_max_concurrent
    /\ \E h \in DOMAIN hedge_pc : hedge_pc[h] = "waiting"


\* stage i's loop is suspended inside the processing of its task: in the rerank
\* stage's HTTP call, or in any stage's put on a full output queue
Suspended(i) == (i = 3 /\ loop_pc[i] = "process") \/ loop_pc[i] = "put"

\* C28: while a stage with max_concurrent >= 2 is suspended in the processing of
\* one task and another task waits in its queue, the stage can take that task.
C28_SecondTaskStarts ==
    \A i \in Stages :
        (MaxConcurrent(i) >= 2 /\ Suspended(i) /\ Len(queue[i]) > 0)
            => ENABLED StageGet(i)

(***************************************************************************)
(* Claims about failures inside a stage                                    *)
(***************************************************************************)
\* one step of stage i's loop
StageStep(i) ==
    \/ StageGet(i) /\ UNCHANGED <<cacheVars, netVars, cascVars, budgetVars, hedgeVars, retryVars, ioVars, guardVars, staleVars, patternVars, lruVars>>
    \/ \E ok \in BOOLEAN :
          StageProcess(i, ok) /\ UNCHANGED <<cacheVars, netVars, cascVars, budgetVars, hedgeVars, retryVars, ioVars, guardVars, staleVars, patternVars, lruVars>>
    \/ i < 4 /\ StagePutResume(i) /\ UNCHANGED <<cacheVars, netVars, cascVars, budgetVars, hedgeVars, retryVars, ioVars, guardVars, staleVars, patternVars, lruVars>>

\* a pipeline that is started and never stopped
LoopNext ==
    \/ \E loaded \in BOOLEAN : Start(loaded) /\ UNCHANGED <<cacheVars, netVars, cascVars, budgetVars, hedgeVars, retryVars, ioVars, guardVars, staleVars, patternVars, lruVars>>
    \/ \E q \in LoopQueries :
          Submit(q, "SearchTask") /\ UNCHANGED <<cacheVars, netVars, cascVars, budgetVars, hedgeVars, retryVars, ioVars, guardVars, staleVars, patternVars, lruVars>>
    \/ \E q \in LoopQueries : SubmitResume(q) /\ UNCHANGED <<cacheVars, netVars, cascVars, budgetVars, hedgeVars, retryVars, ioVars, guardVars, staleVars, patternVars, lruVars>>
    \/ \E i \in Stages : StageStep(i)

\* the event loop runs every task that is ready: a stage loop that can take a
\* step takes one, and the call a stage awaits (rerank service, put) returns
LoopSpec == Init /\ [][LoopNext]_vars /\ \A i \in Stages : WF_vars(StageStep(i))

\* stage i has finished with query q: its task is neither queued there nor in
\* the hands of the stage's loop
Finished(i, q) == ~InQueue(i, q) /\ loop_task[i].query_id # q

\* C29: a failure in the processing of a task adds exactly one to the stage's
\* error counter and to nothing else of the stage, and the loop goes back to
\* taking tasks; and once a stage has had a failure, every task in its queue is
\* taken from it and its processing comes to an end.
C29_FailureLeavesLoopRunning ==
    /\ [][\A i \in Stages :
            (loop_pc[i] = "process" /\ loop_pc'[i] = "get"
                /\ tasks_processed'[i] = tasks_processed[i])
            => /\ errors' = Bump(errors, i)
               /\ live_loops' = live_loops
               /\ queue'[i] = queue[i]]_vars
    /\ \A i \in Stages : \A q \in LoopQueries :
          (errors[i] > 0 /\ InQueue(i, q)) ~> Finished(i, q)

\* no stage has a task of query q, queued or taken
Nowhere(q) == \A k \in Stages : ~InStage(k, q)

\* a result is stored for query q
Stored(q) == q \in DOMAIN judge_results \/ q \in DOMAIN results

\* C30: the step in which the processing of a query's task fails enqueues
\* nothing, stores nothing and counts nothing but one error of the failing
\* stage, and leaves the query with no task anywhere; and a submitted query that
\* has no task anywhere and no stored result never has a task or a result again.
C30_FailedTaskLost ==
    /\ [][\A i \in Stages : \A q \in Queries :
            (loop_task[i].query_id = q /\ loop_pc[i] = "process"
                /\ errors'[i] # errors[i])
            => /\ Nowhere(q)'
               /\ ~Stored(q)'
               /\ queue' = queue
               /\ total_put' = total_put
               /\ tasks_processed' = tasks_processed
               /\ judge_results' = judge_results
               /\ results' = results
               /\ errors' = Bump(errors, i)]_vars
    /\ [][\A q \in Queries :
            (sub_pc[q].at \in {"returned", "error"} /\ Nowhere(q) /\ ~Stored(q))
            => (Nowhere(q)' /\ ~Stored(q)')]_vars

\* both queries were taken by the search stage; one has its result stored, the
\* other failed in a stage and is nowhere but in that stage's error counter
C30_Witness ==
    \E q \in Queries, r \in Queries, i \in Stages :
        /\ Stored(r)
        /\ sub_pc[q].at = "returned"
        /\ Nowhere(q)
        /\ ~Stored(q)
        /\ errors = [k \in Stages |-> IF k = i THEN 1 ELSE 0]
        /\ tasks_processed[4] = 1
        /\ tasks_processed[1] + errors[1] = 2

(***************************************************************************)
(* Claims about the cascade's fall-through                                 *)
(***************************************************************************)
\* C31: an evaluate() call invokes no judge more than once: the fall-through
\* after the heuristic and LLM steps takes only judges not yet invoked.
C31_NoJudgeTwice ==
    last_eval.status = "returned" =>
        \A i \in 1..Len(last_eval.invoked), j \in 1..Len(last_eval.invoked) :
            last_eval.invoked[i] = last_eval.invoked[j] => i = j

(***************************************************************************)
(* Claims about the cascade's bookkeeping                                  *)
(***************************************************************************)
\* this step is an evaluate() call that returned
EvaluateReturned ==
    /\ last_eval'.status = "returned"
    /\ judges' = judges
    /\ casc_config' = casc_config
    /\ <<last_eval, performance_history, evaluation_count>>'
          # <<last_eval, performance_history, evaluation_count>>

\* C32: every evaluate() call that returns adds one to the counters of a judge
\* for each time it invoked the judge, whether the judge returned or raised, and
\* with tracking on appends one entry for the result it returns, a judge's or
\* the default, to the performance history.
C32_EveryCallTracked ==
    [][EvaluateReturned =>
         /\ \A n \in JudgeNames :
               evaluation_count'[n] = evaluation_count[n]
                  + Cardinality({i \in 1..Len(last_eval'.invoked) :
                                    last_eval'.invoked[i] = n})
         /\ casc_config.track_performance =>
               performance_history' =
                  LastEntries(Append(performance_history,
                                     HistoryEntry(last_eval'.result)),
                              adaptation_window)]_vars

(***************************************************************************)
(* Claims about adapt_thresholds                                           *)
(***************************************************************************)
\* the heuristic judge's confidences among the most recent 20 outcomes
RecentHeuristic == OfJudge(LastEntries(performance_history, 20), "heuristic")

MeanAbove(confidences, x) ==
    Len(confidences) > 0 /\ SumConfidence(confidences) > x * Len(confidences)

MeanBelow(confidences, x) ==
    Len(confidences) > 0 /\ SumConfidence(confidences) < x * Len(confidences)

\* the call left the low threshold, the quality floor and the judges alone
OnlyHighTouched ==
    /\ thresholds.low = last_thresholds.before.low
    /\ thresholds.min_quality = last_thresholds.before.min_quality
    /\ judges = last_thresholds.judges

\* what the call did to the high threshold when the rule applies
HighRule ==
    IF MeanAbove(RecentHeuristic, 70)
    THEN thresholds.high = Smaller(90, last_thresholds.before.high + 5)
    ELSE IF MeanBelow(RecentHeuristic, 50)
    THEN thresholds.high = Larger(60, last_thresholds.before.high - 5)
    ELSE thresholds.high = last_thresholds.before.high

UpgradeDue ==
    /\ Rank(last_adapt.old_tier) < 3
    /\ last_adapt.quality >= upgrade_quality_threshold
    /\ 100 * last_adapt.time_ms < 50 * get_time_budget(last_adapt.old_tier)

\* the call's observation asks for the next tier down
DowngradeDue ==
    /\ ~UpgradeDue
    /\ Rank(last_adapt.old_tier) > 1
    /\ 100 * last_adapt.time_ms
          > downgrade_time_threshold * get_time_budget(last_adapt.old_tier)

\* C34: adapt_tier moves the tier up one step iff the tier is not the top, the
\* quality is at least upgrade_quality_threshold and the latency is under half
\* the tier's time budget; otherwise down one step iff the tier is not the
\* bottom and the latency is over downgrade_time_threshold of that budget;
\* otherwise the tier stays.
C34_TierRule ==
    last_adapt.called =>
        /\ UpgradeDue <=> Rank(current_tier) = Rank(last_adapt.old_tier) + 1
        /\ DowngradeDue <=> Rank(current_tier) = Rank(last_adapt.old_tier) - 1
        /\ (~UpgradeDue /\ ~DowngradeDue) => current_tier = last_adapt.old_tier

\* a call at exactly the quality threshold that moved the tier up
C34_Witness ==
    /\ last_adapt.called
    /\ last_adapt.quality = upgrade_quality_threshold
    /\ last_adapt.old_tier = "fast"
    /\ current_tier = "balanced"

(***************************************************************************)
(* Claims about the retrieval tier and the combined config                 *)
(***************************************************************************)
\* the selection was forced to premium by the context: a time budget above
\* 8000 ms or a caller preference of thorough
ForcedPremium ==
    /\ retrieval_tier = "premium"
    /\ \/ TimeBudgetOf(last_select.context) > 8000
       \/ last_select.context.user_preference = "thorough"

\* C35: between two consecutive selections TierManager.current_tier moves at
\* most one step, never directly between basic and premium, unless the
\* selection was forced to premium.
C35_RetrievalOneStep ==
    last_select.called =>
        \/ ForcedPremium
        \/ TierRank(retrieval_tier) - TierRank(last_select.old_tier) \in {-1, 0, 1}

\* C36: the combined config takes the smaller of the two tiers' values for
\* max_results, rerank_topk, q_max and d_max, and the conjunction of the two
\* tiers' flags for hedging, caching and filtering and, for streaming, of the
\* flags there are (the budget tier has none).
C36_StricterOfBoth ==
    last_config.returned =>
        LET tier_config == get_tier_config(last_config.tier)
            budget_config == BudgetConfigOf(last_config.budget_tier)
        IN /\ last_config.max_results
                 = Smaller(tier_config.max_results, budget_config.max_results)
           /\ last_config.rerank_topk
                 = Smaller(tier_config.rerank_topk, budget_config.rerank_topk)
           /\ last_config.q_max = Smaller(tier_config.q_max, budget_config.q_max)
           /\ last_config.d_max = Smaller(tier_config.d_max, budget_config.d_max)
           /\ last_config.enable_hedging
                 = (tier_config.enable_hedging /\ budget_config.enable_hedging)
           /\ last_config.enable_caching
                 = (tier_config.enable_caching /\ budget_config.enable_caching)
           /\ last_config.enable_filtering
                 = (tier_config.enable_filtering /\ budget_config.enable_filtering)
           /\ last_config.enable_streaming = tier_config.enable_streaming

\* C37: a selection whose context carries no time budget yields premium for a
\* caller preference of thorough and, without a preference, premium for a query
\* of more than five tokens and at least enhanced for one of four or five.
C37_NoTimeInContext ==
    (last_select.called /\ ~last_select.context.has_time) =>
        /\ last_select.context.user_preference = "thorough"
              => retrieval_tier = "premium"
        /\ (last_select.context.user_preference = "none"
              /\ last_select.query.length > 5) => retrieval_tier = "premium"
        /\ (last_select.context.user_preference = "none"
              /\ last_select.query.length \in {4, 5})
              => TierRank(retrieval_tier) >= 2

(***************************************************************************)
(* Claims about the histories                                              *)
(***************************************************************************)
\* C38: the budget controller's history never holds more entries than its
\* adaptation_window, however closely the adapt_tier calls follow each other,
\* and the cascade's history never more than its own.
C38_HistoriesBounded ==
    /\ Len(budget_history) <= budget_adaptation_window
    /\ Len(performance_history) <= adaptation_window

(***************************************************************************)
(* Claims about the rate limiter and the violation levels                  *)
(***************************************************************************)
\* C39: for every client id the check_rate_limit calls admitted within one
\* clock minute never number more than max_requests_per_minute, whatever calls
\* with other client ids come in between.
C39_RateLimitPerClient ==
    \A client_id \in Clients : admitted[client_id] <= max_requests_per_minute

\* a run_evaluation call was turned away for its violations or by the breaker
Rejected == last_run.outcome \in {"input_validation_failed", "circuit_breaker_open"}

\* C40: an evaluation is stopped for its violations iff one of them is BLOCK,
\* and while every violation of every evaluation so far was WARN no evaluation
\* is turned away, for its violations or by the breaker their recording feeds.
C40_OnlyBlockHalts ==
    last_run.called =>
        /\ last_run.outcome = "input_validation_failed" <=> "block" \in last_run.input
        /\ only_warn => ~Rejected
====
